---- MODULE Spec2Model ----
(***************************************************************************)
(* AgentBountyBoard: a Dutch auction job market with token escrow.         *)
(* Every external call of the contract is one atomic step: a transaction   *)
(* either commits all of its writes or reverts and leaves the contract     *)
(* storage and the token balances as they were.                            *)
(***************************************************************************)
EXTENDS Integers, Sequences, FiniteSets, TLC

(***************************************************************************)
(* Bounds of the model.                                                    *)
(***************************************************************************)
\* uint256 scaled down: values range over 0 .. 2^UintBits - 1
UintBits == 8
\* block.timestamp runs from 1 to MaxTime
MaxTime == 4
\* tokens each account holds at the start
InitBal == 4

MaxUint == 2 ^ UintBits - 1

(***************************************************************************)
(* Accounts and call arguments.                                            *)
(***************************************************************************)
Board == "board"
ZeroAddress == "0x0"
Addr == {"poster", "agent", "agent2"}
\* postJob arguments <<description, minPrice, maxPrice, auctionDuration, workDeadline>>:
\* accepted ones (a ramp, a ramp from zero whose midpoint truncates, a flat price,
\* the largest duration, the largest deadline) and one rejected by each require
PostArgs ==
    { <<"d", 2, 4, 2, 1>>, <<"d", 0, 1, 2, 1>>, <<"d", 2, 2, 2, 1>>,
      <<"d", 0, 3, MaxUint, 1>>, <<"d", 0, 3, 2, MaxUint>>,
      <<"d", 0, 0, 2, 1>>, <<"d", 2, 1, 2, 1>>, <<"d", 0, 2, 0, 1>>,
      <<"d", 0, 2, 2, 0>>, <<"", 0, 2, 2, 1>> }
AgentIds == {21548}
SubmissionURIs == {"", "ipfs"}
Ratings == {0, 100, 101}

JobStatus == {"Open", "Claimed", "Submitted", "Completed", "Disputed", "Expired", "Cancelled"}
TerminalStatus == {"Completed", "Disputed", "Expired", "Cancelled"}

VARIABLES jobs, agentStats, bal, now, last, ledger

vars == <<jobs, agentStats, bal, now, last, ledger>>

(***************************************************************************)
(* Helpers over the storage.                                               *)
(***************************************************************************)
\* jobs[jobId] of the contract: ids are 0-based, the sequence is 1-based
JobAt(jobId) == jobs[jobId + 1]
JobExists(jobId) == jobId \in 0 .. Len(jobs) - 1
JobIds == 0 .. Len(jobs) - 1
\* the ids a caller may pass: every existing one and the first unknown one
CallIds == 0 .. Len(jobs)

NewJob(poster, description, minPrice, maxPrice, auctionDuration, workDeadline, timestamp) ==
    [ poster |-> poster,
      description |-> description,
      minPrice |-> minPrice,
      maxPrice |-> maxPrice,
      auctionStart |-> timestamp,
      auctionDuration |-> auctionDuration,
      workDeadline |-> workDeadline,
      claimedAt |-> 0,
      agent |-> ZeroAddress,
      agentId |-> 0,
      submissionURI |-> "",
      paidAmount |-> 0,
      rating |-> 0,
      status |-> "Open" ]

NoStats == [completedJobs |-> 0, disputedJobs |-> 0, totalEarned |-> 0, totalRating |-> 0]

(***************************************************************************)
(* The token, as the contract uses it: a transfer moves the amount or      *)
(* reverts. tokenOk is the token's own verdict (allowance, pause, ...).    *)
(***************************************************************************)
TransferSucceeds(b, from, amount, tokenOk) == tokenOk /\ b[from] >= amount

Transfer(b, from, to, amount) ==
    [a \in DOMAIN b |->
        IF a = from /\ a = to THEN b[a]
        ELSE IF a = from THEN b[a] - amount
        ELSE IF a = to THEN b[a] + amount
        ELSE b[a]]

\* one committed token movement of an operation on a job
Entry(op, from, to, amount) == [op |-> op, from |-> from, to |-> to, amount |-> amount]

\* the outcome of the transaction just executed: "ok" or the revert reason,
\* and the value it returned or logged (0 when there is none)
Call(op, caller, jobId, result, value) ==
    [op |-> op, caller |-> caller, jobId |-> jobId, result |-> result, value |-> value]
NoCall == Call("none", ZeroAddress, 0, "none", 0)


(***************************************************************************)
(* Initial state: the contract just deployed, no job, no statistics.       *)
(***************************************************************************)
Init ==
    /\ jobs = << >>
    /\ agentStats = [a \in Addr |-> NoStats]
    /\ bal = [a \in Addr \cup {Board} |-> IF a = Board THEN 0 ELSE InitBal]
    /\ now = 1
    /\ last = NoCall
    /\ ledger = << >>

(***************************************************************************)
(* Checked uint256 arithmetic: an overflowing or underflowing operation    *)
(* reverts the transaction with Panic(0x11).                               *)
(***************************************************************************)
Overflows(x) == x > MaxUint \/ x < 0

Value(v) == [reverted |-> FALSE, value |-> v]
Panic == [reverted |-> TRUE, value |-> 0]

(***************************************************************************)
(* _getCurrentPrice                                                        *)
(***************************************************************************)
_getCurrentPrice(job, timestamp) ==
    IF Overflows(job.auctionStart + job.auctionDuration) THEN Panic
    ELSE IF timestamp >= job.auctionStart + job.auctionDuration THEN Value(job.maxPrice)
    ELSE IF Overflows(timestamp - job.auctionStart) THEN Panic
    ELSE IF Overflows(job.maxPrice - job.minPrice) THEN Panic
    ELSE LET elapsed == timestamp - job.auctionStart
             range == job.maxPrice - job.minPrice
         IN  IF Overflows(range * elapsed) THEN Panic
             ELSE IF Overflows(job.minPrice + (range * elapsed) \div job.auctionDuration) THEN Panic
             ELSE Value(job.minPrice + (range * elapsed) \div job.auctionDuration)

(***************************************************************************)
(* postJob                                                                 *)
(***************************************************************************)
\* mutant: the floor is not compared with the ceiling
postJobResultNoMinCheck(caller, description, minPrice, maxPrice, auctionDuration, workDeadline, tokenOk) ==
    IF ~(maxPrice > 0) THEN "Max price must be > 0"
    ELSE IF ~(auctionDuration > 0) THEN "Auction duration must be > 0"
    ELSE IF ~(workDeadline > 0) THEN "Work deadline must be > 0"
    ELSE IF ~(Len(description) > 0) THEN "Description required"
    ELSE IF ~TransferSucceeds(bal, caller, maxPrice, tokenOk) THEN "transfer failed"
    ELSE "ok"

postJobResult(caller, description, minPrice, maxPrice, auctionDuration, workDeadline, tokenOk) ==
    IF ~(maxPrice > 0) THEN "Max price must be > 0"
    ELSE IF ~(maxPrice >= minPrice) THEN "Max must be >= min"
    ELSE IF ~(auctionDuration > 0) THEN "Auction duration must be > 0"
    ELSE IF ~(workDeadline > 0) THEN "Work deadline must be > 0"
    ELSE IF ~(Len(description) > 0) THEN "Description required"
    ELSE IF ~TransferSucceeds(bal, caller, maxPrice, tokenOk) THEN "transfer failed"
    ELSE "ok"

\* the amount postJob moves from the poster into the contract
postJobEscrow(minPrice, maxPrice) == maxPrice

postJob(caller, description, minPrice, maxPrice, auctionDuration, workDeadline, tokenOk) ==
    LET result == postJobResult(caller, description, minPrice, maxPrice,
                                auctionDuration, workDeadline, tokenOk)
        jobId == Len(jobs)
        escrow == postJobEscrow(minPrice, maxPrice)
    IN  /\ last' = Call("postJob", caller, jobId, result, IF result = "ok" THEN jobId ELSE 0)
        /\ now' = now
        /\ IF result = "ok"
           THEN /\ bal' = Transfer(bal, caller, Board, escrow)
                /\ jobs' = Append(jobs, NewJob(caller, description, minPrice, maxPrice,
                                               auctionDuration, workDeadline, now))
                /\ ledger' = Append(ledger, <<Entry("postJob", caller, Board, escrow)>>)
                /\ agentStats' = agentStats
           ELSE UNCHANGED <<jobs, agentStats, bal, ledger>>

\* the storage writes and the token movement of a committed operation on a job
\* mutant: a settled job's record is removed from the array
\* mutant: the writes go to the first job, whichever id was passed
CommitToFirstJob(jobId, job, stats, op, to, amount) ==
    /\ jobs' = [jobs EXCEPT ![1] = job]
    /\ agentStats' = stats
    /\ bal' = Transfer(bal, Board, to, amount)
    /\ ledger' = [ledger EXCEPT ![jobId + 1] = Append(@, Entry(op, Board, to, amount))]

CommitAndDelete(jobId, job, stats, op, to, amount) ==
    /\ jobs' = SubSeq(jobs, 1, jobId) \o SubSeq(jobs, jobId + 2, Len(jobs))
    /\ agentStats' = stats
    /\ bal' = Transfer(bal, Board, to, amount)
    /\ ledger' = SubSeq(ledger, 1, jobId) \o SubSeq(ledger, jobId + 2, Len(ledger))

Commit(jobId, job, stats, op, to, amount) ==
    /\ jobs' = [jobs EXCEPT ![jobId + 1] = job]
    /\ agentStats' = stats
    /\ bal' = Transfer(bal, Board, to, amount)
    /\ ledger' = [ledger EXCEPT ![jobId + 1] = Append(@, Entry(op, Board, to, amount))]

(***************************************************************************)
(* approveWork                                                             *)
(***************************************************************************)
\* mutant: the payment's failure is not noticed
\* mutant: any rating is accepted
approveWorkResultAnyRating(caller, jobId, rating, tokenOk) ==
    IF ~JobExists(jobId) THEN "Panic(0x32)"
    ELSE IF ~(caller = JobAt(jobId).poster) THEN "Only poster can approve"
    ELSE IF ~(JobAt(jobId).status = "Submitted") THEN "Job not submitted"
    ELSE IF ~TransferSucceeds(bal, Board, JobAt(jobId).paidAmount, tokenOk) THEN "transfer failed"
    ELSE "ok"

approveWorkResultUnchecked(caller, jobId, rating, tokenOk) ==
    IF ~JobExists(jobId) THEN "Panic(0x32)"
    ELSE IF ~(caller = JobAt(jobId).poster) THEN "Only poster can approve"
    ELSE IF ~(JobAt(jobId).status = "Submitted") THEN "Job not submitted"
    ELSE IF ~(rating <= 100) THEN "Rating must be 0-100"
    ELSE "ok"

approveWorkResult(caller, jobId, rating, tokenOk) ==
    IF ~JobExists(jobId) THEN "Panic(0x32)"
    ELSE IF ~(caller = JobAt(jobId).poster) THEN "Only poster can approve"
    ELSE IF ~(JobAt(jobId).status = "Submitted") THEN "Job not submitted"
    ELSE IF ~(rating <= 100) THEN "Rating must be 0-100"
    ELSE IF \/ Overflows(agentStats[JobAt(jobId).agent].completedJobs + 1)
            \/ Overflows(agentStats[JobAt(jobId).agent].totalEarned + JobAt(jobId).paidAmount)
            \/ Overflows(agentStats[JobAt(jobId).agent].totalRating + rating)
         THEN "Panic(0x11)"
    ELSE IF ~TransferSucceeds(bal, Board, JobAt(jobId).paidAmount, tokenOk) THEN "transfer failed"
    ELSE "ok"

ApprovedJob(job, rating) == [job EXCEPT !.status = "Completed", !.rating = rating]

\* mutant: the ceiling is booked as earned, whatever was paid
ApprovedStatsEarnsMaxPrice(stats, job, rating) ==
    [stats EXCEPT ![job.agent] =
        [completedJobs |-> @.completedJobs + 1,
         disputedJobs |-> @.disputedJobs,
         totalEarned |-> @.totalEarned + job.maxPrice,
         totalRating |-> @.totalRating + rating]]

\* mutant: the rating of an approval is not added to the agent's total
ApprovedStatsNoRating(stats, job, rating) ==
    [stats EXCEPT ![job.agent] =
        [completedJobs |-> @.completedJobs + 1,
         disputedJobs |-> @.disputedJobs,
         totalEarned |-> @.totalEarned + job.paidAmount,
         totalRating |-> @.totalRating]]

ApprovedStats(stats, job, rating) ==
    [stats EXCEPT ![job.agent] =
        [completedJobs |-> @.completedJobs + 1,
         disputedJobs |-> @.disputedJobs,
         totalEarned |-> @.totalEarned + job.paidAmount,
         totalRating |-> @.totalRating + rating]]

\* mutant: the agent is paid the price of the moment of approval
approveWorkPaymentAtCurrentPrice(job) == _getCurrentPrice(job, now).value

approveWorkPayment(job) == job.paidAmount

approveWork(caller, jobId, rating, tokenOk) ==
    LET result == approveWorkResult(caller, jobId, rating, tokenOk)
    IN  /\ now' = now
        /\ IF result = "ok"
           THEN /\ last' = Call("approveWork", caller, jobId, result, approveWorkPayment(JobAt(jobId)))
                /\ Commit(jobId, ApprovedJob(JobAt(jobId), rating),
                          ApprovedStats(agentStats, JobAt(jobId), rating),
                          "approveWork", JobAt(jobId).agent, approveWorkPayment(JobAt(jobId)))
           ELSE /\ last' = Call("approveWork", caller, jobId, result, 0)
                /\ UNCHANGED <<jobs, agentStats, bal, ledger>>

(***************************************************************************)
(* disputeWork                                                             *)
(***************************************************************************)
disputeWorkResult(caller, jobId, tokenOk) ==
    IF ~JobExists(jobId) THEN "Panic(0x32)"
    ELSE IF ~(caller = JobAt(jobId).poster) THEN "Only poster can dispute"
    ELSE IF ~(JobAt(jobId).status = "Submitted") THEN "Job not submitted"
    ELSE IF Overflows(agentStats[JobAt(jobId).agent].disputedJobs + 1) THEN "Panic(0x11)"
    ELSE IF ~TransferSucceeds(bal, Board, JobAt(jobId).paidAmount, tokenOk) THEN "transfer failed"
    ELSE "ok"

\* mutant: the status write is missing
DisputedJobStaysSubmitted(job) == job

DisputedJob(job) == [job EXCEPT !.status = "Disputed"]

\* mutant: a dispute is counted as a completed job as well
DisputedStatsCountsCompleted(stats, job) ==
    [stats EXCEPT ![job.agent] = [@ EXCEPT !.disputedJobs = @ + 1, !.completedJobs = @ + 1]]

DisputedStats(stats, job) ==
    [stats EXCEPT ![job.agent] = [@ EXCEPT !.disputedJobs = @ + 1]]

\* mutant: a dispute refunds the ceiling instead of the locked price
disputeWorkRefundMaxPrice(job) == job.maxPrice

disputeWorkRefund(job) == job.paidAmount

disputeWork(caller, jobId, tokenOk) ==
    LET result == disputeWorkResult(caller, jobId, tokenOk)
    IN  /\ now' = now
        /\ last' = Call("disputeWork", caller, jobId, result, 0)
        /\ IF result = "ok"
           THEN Commit(jobId, DisputedJob(JobAt(jobId)), DisputedStats(agentStats, JobAt(jobId)),
                       "disputeWork", JobAt(jobId).poster, disputeWorkRefund(JobAt(jobId)))
           ELSE UNCHANGED <<jobs, agentStats, bal, ledger>>

(***************************************************************************)
(* cancelJob                                                               *)
(***************************************************************************)
\* mutant: the status of the job is not looked at
cancelJobResultAnyStatus(caller, jobId, tokenOk) ==
    IF ~JobExists(jobId) THEN "Panic(0x32)"
    ELSE IF ~(caller = JobAt(jobId).poster) THEN "Only poster can cancel"
    ELSE IF ~TransferSucceeds(bal, Board, JobAt(jobId).maxPrice, tokenOk) THEN "transfer failed"
    ELSE "ok"

cancelJobResult(caller, jobId, tokenOk) ==
    IF ~JobExists(jobId) THEN "Panic(0x32)"
    ELSE IF ~(caller = JobAt(jobId).poster) THEN "Only poster can cancel"
    ELSE IF ~(JobAt(jobId).status = "Open") THEN "Job not open"
    ELSE IF ~TransferSucceeds(bal, Board, JobAt(jobId).maxPrice, tokenOk) THEN "transfer failed"
    ELSE "ok"

\* mutant: the refund is made, the status is not written
CancelledJobStaysOpen(job) == job

CancelledJob(job) == [job EXCEPT !.status = "Cancelled"]

\* mutant: only the floor price goes back to the poster
cancelJobRefundMinPrice(job) == job.minPrice

cancelJobRefund(job) == job.maxPrice

cancelJob(caller, jobId, tokenOk) ==
    LET result == cancelJobResult(caller, jobId, tokenOk)
    IN  /\ now' = now
        /\ last' = Call("cancelJob", caller, jobId, result, 0)
        /\ IF result = "ok"
           THEN Commit(jobId, CancelledJob(JobAt(jobId)), agentStats,
                       "cancelJob", JobAt(jobId).poster, cancelJobRefund(JobAt(jobId)))
           ELSE UNCHANGED <<jobs, agentStats, bal, ledger>>

(***************************************************************************)
(* claimJob                                                                *)
(***************************************************************************)
\* mutant: the refund taken from the floor price, not from the price charged
claimJobRefundFromMinPrice(job, currentPrice) == job.maxPrice - job.minPrice

\* the difference claimJob sends back to the poster
claimJobRefund(job, currentPrice) == job.maxPrice - currentPrice

\* mutant: the token is called for a refund of zero too
claimJobTransfersAlways(refund) == TRUE

\* whether claimJob calls the token at all
claimJobTransfers(refund) == refund > 0

\* mutant: the poster is let through
claimJobResultAnyCaller(caller, jobId, tokenOk) ==
    IF ~JobExists(jobId) THEN "Panic(0x32)"
    ELSE IF ~(JobAt(jobId).status = "Open") THEN "Job not open"
    ELSE IF _getCurrentPrice(JobAt(jobId), now).reverted THEN "Panic(0x11)"
    ELSE IF /\ claimJobTransfers(claimJobRefund(JobAt(jobId), _getCurrentPrice(JobAt(jobId), now).value))
            /\ ~TransferSucceeds(bal, Board,
                    claimJobRefund(JobAt(jobId), _getCurrentPrice(JobAt(jobId), now).value), tokenOk)
         THEN "transfer failed"
    ELSE "ok"

\* mutant: the caller is looked at before the status
claimJobResultCallerFirst(caller, jobId, tokenOk) ==
    IF ~JobExists(jobId) THEN "Panic(0x32)"
    ELSE IF ~(caller # JobAt(jobId).poster) THEN "Poster cannot claim own job"
    ELSE IF ~(JobAt(jobId).status = "Open") THEN "Job not open"
    ELSE IF _getCurrentPrice(JobAt(jobId), now).reverted THEN "Panic(0x11)"
    ELSE IF Overflows(claimJobRefund(JobAt(jobId), _getCurrentPrice(JobAt(jobId), now).value))
         THEN "Panic(0x11)"
    ELSE IF /\ claimJobTransfers(claimJobRefund(JobAt(jobId), _getCurrentPrice(JobAt(jobId), now).value))
            /\ ~TransferSucceeds(bal, Board,
                    claimJobRefund(JobAt(jobId), _getCurrentPrice(JobAt(jobId), now).value), tokenOk)
         THEN "transfer failed"
    ELSE "ok"

claimJobResult(caller, jobId, tokenOk) ==
    IF ~JobExists(jobId) THEN "Panic(0x32)"
    ELSE IF ~(JobAt(jobId).status = "Open") THEN "Job not open"
    ELSE IF ~(caller # JobAt(jobId).poster) THEN "Poster cannot claim own job"
    ELSE IF _getCurrentPrice(JobAt(jobId), now).reverted THEN "Panic(0x11)"
    ELSE IF Overflows(claimJobRefund(JobAt(jobId), _getCurrentPrice(JobAt(jobId), now).value))
         THEN "Panic(0x11)"
    ELSE IF /\ claimJobTransfers(claimJobRefund(JobAt(jobId), _getCurrentPrice(JobAt(jobId), now).value))
            /\ ~TransferSucceeds(bal, Board,
                    claimJobRefund(JobAt(jobId), _getCurrentPrice(JobAt(jobId), now).value), tokenOk)
         THEN "transfer failed"
    ELSE "ok"

\* mutant: the ceiling is locked, whatever the price is at the time of the claim
ClaimedJobAtMaxPrice(job, caller, agentId, timestamp, currentPrice) ==
    [job EXCEPT !.status = "Claimed",
                !.agent = caller,
                !.agentId = agentId,
                !.claimedAt = timestamp,
                !.paidAmount = job.maxPrice]

\* mutant: the claim is dated at the start of the auction
ClaimedJobAtAuctionStart(job, caller, agentId, timestamp, currentPrice) ==
    [job EXCEPT !.status = "Claimed",
                !.agent = caller,
                !.agentId = agentId,
                !.claimedAt = job.auctionStart,
                !.paidAmount = currentPrice]

ClaimedJob(job, caller, agentId, timestamp, currentPrice) ==
    [job EXCEPT !.status = "Claimed",
                !.agent = caller,
                !.agentId = agentId,
                !.claimedAt = timestamp,
                !.paidAmount = currentPrice]

claimJob(caller, jobId, agentId, tokenOk) ==
    LET result == claimJobResult(caller, jobId, tokenOk)
    IN  /\ now' = now
        /\ IF result = "ok"
           THEN LET job == JobAt(jobId)
                    currentPrice == _getCurrentPrice(job, now).value
                    refund == claimJobRefund(job, currentPrice)
                IN  /\ last' = Call("claimJob", caller, jobId, result, currentPrice)
                    /\ jobs' = [jobs EXCEPT ![jobId + 1] =
                                    ClaimedJob(job, caller, agentId, now, currentPrice)]
                    /\ agentStats' = agentStats
                    /\ IF claimJobTransfers(refund)
                       THEN /\ bal' = Transfer(bal, Board, job.poster, refund)
                            /\ ledger' = [ledger EXCEPT ![jobId + 1] =
                                   Append(@, Entry("claimJob", Board, job.poster, refund))]
                       ELSE UNCHANGED <<bal, ledger>>
           ELSE /\ last' = Call("claimJob", caller, jobId, result, 0)
                /\ UNCHANGED <<jobs, agentStats, bal, ledger>>

(***************************************************************************)
(* submitWork                                                              *)
(***************************************************************************)
\* mutant: the status is looked at before the caller
submitWorkResultStatusFirst(caller, jobId, submissionURI) ==
    IF ~JobExists(jobId) THEN "Panic(0x32)"
    ELSE IF ~(JobAt(jobId).status = "Claimed") THEN "Job not claimed"
    ELSE IF ~(caller = JobAt(jobId).agent) THEN "Only assigned agent"
    ELSE IF ~(Len(submissionURI) > 0) THEN "Submission URI required"
    ELSE IF Overflows(JobAt(jobId).claimedAt + JobAt(jobId).workDeadline) THEN "Panic(0x11)"
    ELSE IF ~(now <= JobAt(jobId).claimedAt + JobAt(jobId).workDeadline) THEN "Work deadline passed"
    ELSE "ok"

submitWorkResult(caller, jobId, submissionURI) ==
    IF ~JobExists(jobId) THEN "Panic(0x32)"
    ELSE IF ~(caller = JobAt(jobId).agent) THEN "Only assigned agent"
    ELSE IF ~(JobAt(jobId).status = "Claimed") THEN "Job not claimed"
    ELSE IF ~(Len(submissionURI) > 0) THEN "Submission URI required"
    ELSE IF Overflows(JobAt(jobId).claimedAt + JobAt(jobId).workDeadline) THEN "Panic(0x11)"
    ELSE IF ~(now <= JobAt(jobId).claimedAt + JobAt(jobId).workDeadline) THEN "Work deadline passed"
    ELSE "ok"

\* mutant: the URI is stored over the description
SubmittedJobOverDescription(job, submissionURI) ==
    [job EXCEPT !.status = "Submitted", !.submissionURI = submissionURI,
                !.description = submissionURI]

SubmittedJob(job, submissionURI) ==
    [job EXCEPT !.status = "Submitted", !.submissionURI = submissionURI]

\* mutant: the writes are made before the checks and a failed check returns
\* without reverting
submitWorkWritesFirst(caller, jobId, submissionURI) ==
    LET result == submitWorkResult(caller, jobId, submissionURI)
    IN  /\ now' = now
        /\ last' = Call("submitWork", caller, jobId, result, 0)
        /\ IF JobExists(jobId)
           THEN /\ jobs' = [jobs EXCEPT ![jobId + 1] = SubmittedJob(JobAt(jobId), submissionURI)]
                /\ UNCHANGED <<agentStats, bal, ledger>>
           ELSE UNCHANGED <<jobs, agentStats, bal, ledger>>

submitWork(caller, jobId, submissionURI) ==
    LET result == submitWorkResult(caller, jobId, submissionURI)
    IN  /\ now' = now
        /\ last' = Call("submitWork", caller, jobId, result, 0)
        /\ IF result = "ok"
           THEN /\ jobs' = [jobs EXCEPT ![jobId + 1] = SubmittedJob(JobAt(jobId), submissionURI)]
                /\ UNCHANGED <<agentStats, bal, ledger>>
           ELSE UNCHANGED <<jobs, agentStats, bal, ledger>>

(***************************************************************************)
(* expireJob                                                               *)
(***************************************************************************)
\* mutant: an unknown id reads as an empty record instead of failing
expireJobResultUnknownAsEmpty(caller, jobId, tokenOk) ==
    IF ~JobExists(jobId) THEN "Job not in claimed state"
    ELSE IF ~(JobAt(jobId).status = "Claimed") THEN "Job not in claimed state"
    ELSE IF Overflows(JobAt(jobId).claimedAt + JobAt(jobId).workDeadline) THEN "Panic(0x11)"
    ELSE IF ~(now > JobAt(jobId).claimedAt + JobAt(jobId).workDeadline) THEN "Deadline not yet passed"
    ELSE IF ~TransferSucceeds(bal, Board, JobAt(jobId).paidAmount, tokenOk) THEN "transfer failed"
    ELSE "ok"

expireJobResult(caller, jobId, tokenOk) ==
    IF ~JobExists(jobId) THEN "Panic(0x32)"
    ELSE IF ~(JobAt(jobId).status = "Claimed") THEN "Job not in claimed state"
    ELSE IF Overflows(JobAt(jobId).claimedAt + JobAt(jobId).workDeadline) THEN "Panic(0x11)"
    ELSE IF ~(now > JobAt(jobId).claimedAt + JobAt(jobId).workDeadline) THEN "Deadline not yet passed"
    ELSE IF ~TransferSucceeds(bal, Board, JobAt(jobId).paidAmount, tokenOk) THEN "transfer failed"
    ELSE "ok"

\* mutant: an expired job goes back on offer
\* mutant: expiry forgets who had claimed the job
ExpiredJobClearsAgent(job) == [job EXCEPT !.status = "Expired", !.agent = ZeroAddress]

ExpiredJobReopened(job) == [job EXCEPT !.status = "Open"]

ExpiredJob(job) == [job EXCEPT !.status = "Expired"]

expireJobRefund(job) == job.paidAmount

\* mutant: an expiry is booked as a dispute against the agent
expireJobCountsDispute(caller, jobId, tokenOk) ==
    LET result == expireJobResult(caller, jobId, tokenOk)
    IN  /\ now' = now
        /\ last' = Call("expireJob", caller, jobId, result, 0)
        /\ IF result = "ok"
           THEN Commit(jobId, ExpiredJob(JobAt(jobId)), DisputedStats(agentStats, JobAt(jobId)),
                       "expireJob", JobAt(jobId).poster, expireJobRefund(JobAt(jobId)))
           ELSE UNCHANGED <<jobs, agentStats, bal, ledger>>

\* mutant: the escrow of an expired job goes to whoever called expireJob
expireJobPaysCaller(caller, jobId, tokenOk) ==
    LET result == expireJobResult(caller, jobId, tokenOk)
    IN  /\ now' = now
        /\ last' = Call("expireJob", caller, jobId, result, 0)
        /\ IF result = "ok"
           THEN Commit(jobId, ExpiredJob(JobAt(jobId)), agentStats,
                       "expireJob", caller, expireJobRefund(JobAt(jobId)))
           ELSE UNCHANGED <<jobs, agentStats, bal, ledger>>

expireJob(caller, jobId, tokenOk) ==
    LET result == expireJobResult(caller, jobId, tokenOk)
    IN  /\ now' = now
        /\ last' = Call("expireJob", caller, jobId, result, 0)
        /\ IF result = "ok"
           THEN Commit(jobId, ExpiredJob(JobAt(jobId)), agentStats,
                       "expireJob", JobAt(jobId).poster, expireJobRefund(JobAt(jobId)))
           ELSE UNCHANGED <<jobs, agentStats, bal, ledger>>

(***************************************************************************)
(* getCurrentPrice (view)                                                  *)
(***************************************************************************)
getCurrentPrice(jobId) ==
    /\ now' = now
    /\ last' = IF ~(jobId < Len(jobs)) THEN Call("getCurrentPrice", ZeroAddress, jobId, "Job does not exist", 0)
               ELSE IF _getCurrentPrice(JobAt(jobId), now).reverted
                    THEN Call("getCurrentPrice", ZeroAddress, jobId, "Panic(0x11)", 0)
               ELSE Call("getCurrentPrice", ZeroAddress, jobId, "ok", _getCurrentPrice(JobAt(jobId), now).value)
    /\ UNCHANGED <<jobs, agentStats, bal, ledger>>

(***************************************************************************)
(* Time: block.timestamp of a later transaction is larger.                 *)
(***************************************************************************)
Tick ==
    /\ now < MaxTime
    /\ now' = now + 1
    /\ last' = NoCall
    /\ UNCHANGED <<jobs, agentStats, bal, ledger>>

\* The life of one job, every call observed, whether it commits or reverts.
Next ==
    \/ \E caller \in Addr, args \in PostArgs, tokenOk \in BOOLEAN :
            jobs = << >> /\ postJob(caller, args[1], args[2], args[3], args[4], args[5], tokenOk)
    \/ \E caller \in Addr, jobId \in CallIds, rating \in Ratings, tokenOk \in BOOLEAN :
            approveWork(caller, jobId, rating, tokenOk)
    \/ \E caller \in Addr, jobId \in CallIds, tokenOk \in BOOLEAN :
            disputeWork(caller, jobId, tokenOk)
    \/ \E caller \in Addr, jobId \in CallIds, tokenOk \in BOOLEAN :
            cancelJob(caller, jobId, tokenOk)
    \/ \E caller \in Addr, jobId \in CallIds, agentId \in AgentIds, tokenOk \in BOOLEAN :
            claimJob(caller, jobId, agentId, tokenOk)
    \/ \E caller \in Addr, jobId \in CallIds, submissionURI \in SubmissionURIs :
            submitWork(caller, jobId, submissionURI)
    \/ \E caller \in Addr, jobId \in CallIds, tokenOk \in BOOLEAN :
            expireJob(caller, jobId, tokenOk)
    \/ \E jobId \in CallIds :
            getCurrentPrice(jobId)
    \/ Tick

Spec == Init /\ [][Next]_vars

(***************************************************************************)
(* Several jobs side by side: up to MaxJobs jobs are posted, by any        *)
(* account, and every operation is called on any of them, in any order.    *)
(* The job is the same small ramp each time; what varies is who posts, who *)
(* claims, when, and how the calls on different jobs interleave. A         *)
(* reverted call leaves the storage and the balances as they were (Spec    *)
(* observes those), so here only the calls that commit are followed.       *)
(***************************************************************************)
MaxJobs == 2
MaxTimeMulti == 3

PostArgsMulti == { <<"d", 1, 2, 1, 1>> }
RatingsMulti == {60, 100}

Committed == last'.result = "ok"

TickMulti ==
    /\ now < MaxTimeMulti
    /\ now' = now + 1
    /\ last' = NoCall
    /\ UNCHANGED <<jobs, agentStats, bal, ledger>>

NextMulti ==
    \/ \E caller \in Addr, args \in PostArgsMulti :
            /\ Len(jobs) < MaxJobs
            /\ postJob(caller, args[1], args[2], args[3], args[4], args[5], TRUE)
            /\ Committed
    \/ \E caller \in Addr, jobId \in JobIds, rating \in RatingsMulti :
            approveWork(caller, jobId, rating, TRUE) /\ Committed
    \/ \E caller \in Addr, jobId \in JobIds :
            disputeWork(caller, jobId, TRUE) /\ Committed
    \/ \E caller \in Addr, jobId \in JobIds :
            cancelJob(caller, jobId, TRUE) /\ Committed
    \/ \E caller \in Addr, jobId \in JobIds, agentId \in AgentIds :
            claimJob(caller, jobId, agentId, TRUE) /\ Committed
    \/ \E caller \in Addr, jobId \in JobIds :
            submitWork(caller, jobId, "ipfs") /\ Committed
    \/ \E caller \in Addr, jobId \in JobIds :
            expireJob(caller, jobId, TRUE) /\ Committed
    \/ TickMulti

SpecMulti == Init /\ [][NextMulti]_vars

(***************************************************************************)
(* getAgentStats (view)                                                    *)
(***************************************************************************)
avgRating(stats) ==
    IF stats.completedJobs > 0 THEN stats.totalRating \div stats.completedJobs ELSE 0

\* the tuple getAgentStats returns for the agent
AgentStatsView(agent) ==
    [ agent |-> agent,
      completedJobs |-> agentStats[agent].completedJobs,
      disputedJobs |-> agentStats[agent].disputedJobs,
      totalEarned |-> agentStats[agent].totalEarned,
      avgRating |-> avgRating(agentStats[agent]) ]

getAgentStats(agent) ==
    /\ now' = now
    /\ last' = Call("getAgentStats", ZeroAddress, 0, "ok", AgentStatsView(agent))
    /\ UNCHANGED <<jobs, agentStats, bal, ledger>>

(***************************************************************************)
(* Reputation: jobs are posted, claimed, submitted and approved or         *)
(* disputed, and the statistics of any account are read in between. Time   *)
(* plays no part in the statistics and stands still; only the calls that   *)
(* commit are followed.                                                    *)
(***************************************************************************)
RatingsStats == {0, 35, 100}

NextStats ==
    \/ \E caller \in Addr, args \in PostArgsMulti :
            /\ Len(jobs) < MaxJobs
            /\ postJob(caller, args[1], args[2], args[3], args[4], args[5], TRUE)
            /\ Committed
    \/ \E caller \in Addr, jobId \in JobIds, agentId \in AgentIds :
            claimJob(caller, jobId, agentId, TRUE) /\ Committed
    \/ \E caller \in Addr, jobId \in JobIds :
            submitWork(caller, jobId, "ipfs") /\ Committed
    \/ \E caller \in Addr, jobId \in JobIds, rating \in RatingsStats :
            approveWork(caller, jobId, rating, TRUE) /\ Committed
    \/ \E caller \in Addr, jobId \in JobIds :
            disputeWork(caller, jobId, TRUE) /\ Committed
    \/ \E agent \in Addr :
            getAgentStats(agent)

SpecStats == Init /\ [][NextStats]_vars

(***************************************************************************)
(* Inside a transaction. claimJob, approveWork, disputeWork, cancelJob and *)
(* expireJob first write the storage and then call the token; postJob      *)
(* calls the token and then writes. The token may run other code before it *)
(* returns. Here such a call is several steps: the writes, after which the *)
(* token call is in flight and the storage is what a call made from inside *)
(* the token would read; any number of such nested calls; then the return  *)
(* of the token, which commits the transaction, or its refusal, which      *)
(* reverts every write made since the transaction began. The mutating      *)
(* functions but submitWork are nonReentrant; time does not pass inside a  *)
(* transaction. submitWork and a claimJob without refund do not call the   *)
(* token.                                                                  *)
(***************************************************************************)
InFlight == last.result = "transferring"

\* the functions that carry the nonReentrant modifier
nonReentrant == {"postJob", "approveWork", "disputeWork", "cancelJob", "claimJob", "expireJob"}

\* mutant: the modifier lets a nested call through
nonReentrantResultUnguarded == "ok"

\* the modifier's verdict on a call: it reverts when a guarded function is running
nonReentrantResult == IF InFlight THEN "ReentrancyGuardReentrantCall" ELSE "ok"

\* the storage as it was when the transaction began, kept for a revert; the
\* transfer the token was asked for; the job postJob will push once the token
\* returns; the call made from inside the token last
Snapshot(from, to, amount, push) ==
    [from |-> from, to |-> to, amount |-> amount, push |-> push,
     jobs |-> jobs, agentStats |-> agentStats, nested |-> NoCall]

postJobBegin(caller, description, minPrice, maxPrice, auctionDuration, workDeadline) ==
    /\ ~InFlight
    /\ postJobResult(caller, description, minPrice, maxPrice, auctionDuration, workDeadline, TRUE)
            \in {"ok", "transfer failed"}
    /\ last' = Call("postJob", caller, Len(jobs), "transferring",
                    Snapshot(caller, Board, postJobEscrow(minPrice, maxPrice),
                             <<NewJob(caller, description, minPrice, maxPrice,
                                      auctionDuration, workDeadline, now)>>))
    /\ UNCHANGED <<jobs, agentStats, bal, ledger, now>>

TransferBegin(op, caller, jobId, job, stats, to, amount) ==
    /\ ~InFlight
    /\ jobs' = [jobs EXCEPT ![jobId + 1] = job]
    /\ agentStats' = stats
    /\ last' = Call(op, caller, jobId, "transferring", Snapshot(Board, to, amount, << >>))
    /\ UNCHANGED <<bal, ledger, now>>

claimJobBegin(caller, jobId, agentId) ==
    /\ claimJobResult(caller, jobId, TRUE) = "ok"
    /\ claimJobTransfers(claimJobRefund(JobAt(jobId), _getCurrentPrice(JobAt(jobId), now).value))
    /\ TransferBegin("claimJob", caller, jobId,
                     ClaimedJob(JobAt(jobId), caller, agentId, now,
                                _getCurrentPrice(JobAt(jobId), now).value),
                     agentStats, JobAt(jobId).poster,
                     claimJobRefund(JobAt(jobId), _getCurrentPrice(JobAt(jobId), now).value))

approveWorkBegin(caller, jobId, rating) ==
    /\ approveWorkResult(caller, jobId, rating, TRUE) = "ok"
    /\ TransferBegin("approveWork", caller, jobId, ApprovedJob(JobAt(jobId), rating),
                     ApprovedStats(agentStats, JobAt(jobId), rating),
                     JobAt(jobId).agent, approveWorkPayment(JobAt(jobId)))

disputeWorkBegin(caller, jobId) ==
    /\ disputeWorkResult(caller, jobId, TRUE) = "ok"
    /\ TransferBegin("disputeWork", caller, jobId, DisputedJob(JobAt(jobId)),
                     DisputedStats(agentStats, JobAt(jobId)),
                     JobAt(jobId).poster, disputeWorkRefund(JobAt(jobId)))

cancelJobBegin(caller, jobId) ==
    /\ cancelJobResult(caller, jobId, TRUE) = "ok"
    /\ TransferBegin("cancelJob", caller, jobId, CancelledJob(JobAt(jobId)), agentStats,
                     JobAt(jobId).poster, cancelJobRefund(JobAt(jobId)))

expireJobBegin(caller, jobId) ==
    /\ expireJobResult(caller, jobId, TRUE) = "ok"
    /\ TransferBegin("expireJob", caller, jobId, ExpiredJob(JobAt(jobId)), agentStats,
                     JobAt(jobId).poster, expireJobRefund(JobAt(jobId)))

\* a call of a guarded function from inside the token: the modifier runs before
\* the body
nestedCall(op, caller, jobId) ==
    /\ InFlight
    /\ op \in nonReentrant
    /\ last' = [last EXCEPT !.value.nested = Call(op, caller, jobId, nonReentrantResult, 0)]
    /\ UNCHANGED <<jobs, agentStats, bal, ledger, now>>

\* submitWork from inside the token: no modifier, the body runs on the storage
\* as the outer call has left it
nestedSubmitWork(caller, jobId, submissionURI) ==
    LET result == submitWorkResult(caller, jobId, submissionURI)
    IN  /\ InFlight
        /\ last' = [last EXCEPT !.value.nested = Call("submitWork", caller, jobId, result, 0)]
        /\ jobs' = IF result = "ok"
                   THEN [jobs EXCEPT ![jobId + 1] = SubmittedJob(JobAt(jobId), submissionURI)]
                   ELSE jobs
        /\ UNCHANGED <<agentStats, bal, ledger, now>>

\* the token returns: the transfer is made and the transaction commits, or the
\* token refuses and the transaction reverts
TransferEnd(tokenOk) ==
    /\ InFlight
    /\ now' = now
    /\ IF TransferSucceeds(bal, last.value.from, last.value.amount, tokenOk)
       THEN /\ bal' = Transfer(bal, last.value.from, last.value.to, last.value.amount)
            /\ jobs' = jobs \o last.value.push
            /\ ledger' = IF last.op = "postJob"
                         THEN Append(ledger, <<Entry("postJob", last.value.from, Board,
                                                      last.value.amount)>>)
                         ELSE [ledger EXCEPT ![last.jobId + 1] =
                                  Append(@, Entry(last.op, Board, last.value.to, last.value.amount))]
            /\ last' = Call(last.op, last.caller, last.jobId, "ok", last.value.amount)
            /\ UNCHANGED agentStats
       ELSE /\ jobs' = last.value.jobs
            /\ agentStats' = last.value.agentStats
            /\ last' = Call(last.op, last.caller, last.jobId, "transfer failed", 0)
            /\ UNCHANGED <<bal, ledger>>

NextReentrant ==
    \/ \E caller \in Addr, args \in PostArgsMulti :
            /\ jobs = << >>
            /\ postJobBegin(caller, args[1], args[2], args[3], args[4], args[5])
    \/ \E caller \in Addr, jobId \in JobIds, agentId \in AgentIds :
            claimJobBegin(caller, jobId, agentId)
    \/ \E caller \in Addr, jobId \in JobIds, agentId \in AgentIds :
            /\ ~InFlight
            /\ ~claimJobTransfers(claimJobRefund(JobAt(jobId), _getCurrentPrice(JobAt(jobId), now).value))
            /\ claimJob(caller, jobId, agentId, TRUE)
            /\ Committed
    \/ \E caller \in Addr, jobId \in JobIds :
            ~InFlight /\ submitWork(caller, jobId, "ipfs") /\ Committed
    \/ \E caller \in Addr, jobId \in JobIds, rating \in RatingsMulti :
            approveWorkBegin(caller, jobId, rating)
    \/ \E caller \in Addr, jobId \in JobIds :
            disputeWorkBegin(caller, jobId)
    \/ \E caller \in Addr, jobId \in JobIds :
            cancelJobBegin(caller, jobId)
    \/ \E caller \in Addr, jobId \in JobIds :
            expireJobBegin(caller, jobId)
    \/ \E op \in nonReentrant, caller \in Addr, jobId \in CallIds :
            nestedCall(op, caller, jobId)
    \/ \E caller \in Addr, jobId \in CallIds :
            nestedSubmitWork(caller, jobId, "ipfs")
    \/ \E tokenOk \in BOOLEAN :
            TransferEnd(tokenOk)
    \/ ~InFlight /\ TickMulti

SpecReentrant == Init /\ [][NextReentrant]_vars



(***************************************************************************)
(* The token movements of a job, read from the ledger of committed         *)
(* transfers.                                                              *)
(***************************************************************************)
RECURSIVE SumAmounts(_)
SumAmounts(entries) ==
    IF entries = << >> THEN 0 ELSE Head(entries).amount + SumAmounts(Tail(entries))

EntriesOf(jobId) == ledger[jobId + 1]
\* tokens the contract received for the job
Deposited(jobId) == SumAmounts(SelectSeq(EntriesOf(jobId), LAMBDA e : e.to = Board))
\* tokens the contract sent back to the poster of the job
Refunded(jobId) ==
    SumAmounts(SelectSeq(EntriesOf(jobId),
                         LAMBDA e : e.from = Board /\ e.to = JobAt(jobId).poster))
\* tokens the contract sent to anybody else for the job
PaidOut(jobId) ==
    SumAmounts(SelectSeq(EntriesOf(jobId),
                         LAMBDA e : e.from = Board /\ e.to # JobAt(jobId).poster))
\* tokens of the job the contract still holds
EscrowHeld(jobId) == Deposited(jobId) - Refunded(jobId) - PaidOut(jobId)
\* how many transfers the operation op made for the job
Transfers(jobId, op) == Len(SelectSeq(EntriesOf(jobId), LAMBDA e : e.op = op))

\* what the job record says the contract still owes for the job
Outstanding(job) ==
    IF job.status = "Open" THEN job.maxPrice
    ELSE IF job.status \in {"Claimed", "Submitted"} THEN job.paidAmount
    ELSE 0

(***************************************************************************)
(* C1. Value conservation: for every job, what the contract still holds    *)
(* for it plus what it refunded to the poster plus what it paid to the     *)
(* agent is the maxPrice postJob escrowed, and what it holds is what the   *)
(* job record still owes, after any sequence of committed or reverted      *)
(* calls.                                                                  *)
(***************************************************************************)
ValueConservation ==
    \A jobId \in JobIds :
        /\ EscrowHeld(jobId) + Refunded(jobId) + PaidOut(jobId) = JobAt(jobId).maxPrice
        /\ Outstanding(JobAt(jobId)) + Refunded(jobId) + PaidOut(jobId) = JobAt(jobId).maxPrice

\* a job claimed part-way up the ramp, refunded the difference, then paid out
ValueConservationWitness ==
    \E jobId \in JobIds :
        /\ JobAt(jobId).status = "Completed"
        /\ Refunded(jobId) > 0
        /\ PaidOut(jobId) > JobAt(jobId).minPrice

(***************************************************************************)
(* C2. A job in a terminal status holds no escrow: Cancelled has sent      *)
(* maxPrice back to the poster; Completed has paid paidAmount to the       *)
(* agent; Disputed and Expired have sent paidAmount back to the poster.    *)
(***************************************************************************)
TerminalEscrowZero ==
    \A jobId \in JobIds :
        LET job == JobAt(jobId)
            final == EntriesOf(jobId)[Len(EntriesOf(jobId))]
        IN  job.status \in TerminalStatus =>
                /\ EscrowHeld(jobId) = 0
                /\ final.from = Board
                /\ job.status = "Cancelled" =>
                        final.amount = job.maxPrice /\ final.to = job.poster
                /\ job.status = "Completed" =>
                        final.amount = job.paidAmount /\ final.to = job.agent
                /\ job.status \in {"Disputed", "Expired"} =>
                        final.amount = job.paidAmount /\ final.to = job.poster

TerminalEscrowZeroWitness ==
    \E jobId \in JobIds :
        /\ JobAt(jobId).status = "Expired"
        /\ JobAt(jobId).paidAmount > 0
        /\ last.op = "expireJob"
        /\ last.result = "ok"

(***************************************************************************)
(* C3. Claim race: of the claimJob calls that callers other than the       *)
(* poster make on one Open job, exactly one commits and its caller becomes *)
(* the agent, and every other one reverts with "Job not open" and moves no *)
(* token. Transactions execute one after another, so this says: a call     *)
(* that finds the job Open commits (unless the token refuses the refund),  *)
(* and a call that finds it claimed reverts with "Job not open".           *)
(***************************************************************************)
ClaimRaceOneWinner ==
    [][\A jobId \in JobIds :
          (/\ last'.op = "claimJob"
           /\ last'.jobId = jobId
           /\ last'.caller # JobAt(jobId).poster
           /\ last'.result # "transfer failed")
          => IF JobAt(jobId).status = "Open"
             THEN /\ last'.result = "ok"
                  /\ jobs'[jobId + 1].agent = last'.caller
                  /\ Transfers(jobId, "claimJob") = 0
             ELSE /\ last'.result = "Job not open"
                  /\ UNCHANGED <<jobs, agentStats, bal, ledger>>]_vars

(***************************************************************************)
(* C4. Terminal statuses are absorbing. As claimed: every claimJob,        *)
(* submitWork, approveWork, disputeWork, cancelJob, expireJob call on a    *)
(* job that is Completed, Disputed, Expired or Cancelled reverts with the  *)
(* status error of the operation, and the job, the tokens held for it and  *)
(* the agent statistics stay as they are.                                  *)
(***************************************************************************)
Mutators == {"claimJob", "submitWork", "approveWork", "disputeWork", "cancelJob", "expireJob"}

StatusError(op) ==
    IF op \in {"claimJob", "cancelJob"} THEN "Job not open"
    ELSE IF op = "submitWork" THEN "Job not claimed"
    ELSE IF op \in {"approveWork", "disputeWork"} THEN "Job not submitted"
    ELSE "Job not in claimed state"

CallerError(op) ==
    IF op = "approveWork" THEN "Only poster can approve"
    ELSE IF op = "disputeWork" THEN "Only poster can dispute"
    ELSE IF op = "cancelJob" THEN "Only poster can cancel"
    ELSE "Only assigned agent"

\* the caller the operation insists on, if any
PassesCallerCheck(op, caller, job) ==
    IF op \in {"approveWork", "disputeWork", "cancelJob"} THEN caller = job.poster
    ELSE IF op = "submitWork" THEN caller = job.agent
    ELSE TRUE

TerminalJobFrozen(jobId) ==
    /\ jobs'[jobId + 1] = jobs[jobId + 1]
    /\ ledger'[jobId + 1] = ledger[jobId + 1]
    /\ (last'.op \in Mutators /\ last'.jobId = jobId) =>
            agentStats' = agentStats /\ bal' = bal

TerminalAbsorbingStatusError ==
    [][\A jobId \in JobIds :
          JobAt(jobId).status \in TerminalStatus =>
              /\ TerminalJobFrozen(jobId)
              /\ (last'.op \in Mutators /\ last'.jobId = jobId) =>
                      last'.result = StatusError(last'.op)]_vars

\* C4 as amended: the call reverts with the status error when the caller is the
\* one the operation insists on, and with the caller error otherwise (the caller
\* is checked first); nothing changes either way.
TerminalAbsorbing ==
    [][\A jobId \in JobIds :
          JobAt(jobId).status \in TerminalStatus =>
              /\ TerminalJobFrozen(jobId)
              /\ (last'.op \in Mutators /\ last'.jobId = jobId) =>
                      last'.result =
                          IF PassesCallerCheck(last'.op, last'.caller, JobAt(jobId))
                          THEN StatusError(last'.op)
                          ELSE CallerError(last'.op)]_vars

\* the poster tries to cancel a job that has already been paid out
TerminalAbsorbingWitness ==
    \E jobId \in JobIds :
        /\ JobAt(jobId).status = "Completed"
        /\ last.op = "cancelJob"
        /\ last.jobId = jobId
        /\ last.caller = JobAt(jobId).poster
        /\ last.result = "Job not open"

(***************************************************************************)
(* C5. A job is created Open, and its status changes only along            *)
(* Open -> Claimed (claimJob), Open -> Cancelled (cancelJob),              *)
(* Claimed -> Submitted (submitWork), Claimed -> Expired (expireJob),      *)
(* Submitted -> Completed (approveWork), Submitted -> Disputed             *)
(* (disputeWork), in a committed call of that operation on that job.       *)
(***************************************************************************)
StatusEdge ==
    { <<"Open", "Claimed", "claimJob">>, <<"Open", "Cancelled", "cancelJob">>,
      <<"Claimed", "Submitted", "submitWork">>, <<"Claimed", "Expired", "expireJob">>,
      <<"Submitted", "Completed", "approveWork">>, <<"Submitted", "Disputed", "disputeWork">> }

StatusEdgesOnly ==
    [][/\ \A jobId \in JobIds :
              jobs'[jobId + 1].status # jobs[jobId + 1].status =>
                  /\ <<jobs[jobId + 1].status, jobs'[jobId + 1].status, last'.op>> \in StatusEdge
                  /\ last'.jobId = jobId
                  /\ last'.result = "ok"
       /\ Len(jobs') >= Len(jobs)
       /\ \A i \in Len(jobs) + 1 .. Len(jobs') :
              jobs'[i].status = "Open" /\ last'.op = "postJob"]_vars

StatusEdgesOnlyWitness ==
    \E jobId \in JobIds :
        /\ JobAt(jobId).status = "Expired"
        /\ last = Call("expireJob", last.caller, jobId, "ok", 0)

(***************************************************************************)
(* C6. No double payment: for every job, paidAmount leaves the contract at *)
(* most once (by approveWork to the agent, or by disputeWork or expireJob  *)
(* to the poster), claimJob refunds at most once, and cancelJob refunds    *)
(* maxPrice at most once and never together with any of the others.        *)
(***************************************************************************)
NoDoublePayment ==
    \A jobId \in JobIds :
        /\ Transfers(jobId, "postJob") = 1
        /\ Transfers(jobId, "approveWork") + Transfers(jobId, "disputeWork")
               + Transfers(jobId, "expireJob") <= 1
        /\ Transfers(jobId, "claimJob") <= 1
        /\ Transfers(jobId, "cancelJob") <= 1
        /\ Transfers(jobId, "cancelJob") = 1 =>
               Len(EntriesOf(jobId)) = 2 /\ Refunded(jobId) = JobAt(jobId).maxPrice
        /\ \A i \in DOMAIN EntriesOf(jobId) :
               LET e == EntriesOf(jobId)[i]
               IN  /\ e.op = "approveWork" =>
                          e.to = JobAt(jobId).agent /\ e.amount = JobAt(jobId).paidAmount
                   /\ e.op \in {"disputeWork", "expireJob"} =>
                          e.to = JobAt(jobId).poster /\ e.amount = JobAt(jobId).paidAmount
                   /\ e.op = "claimJob" =>
                          /\ e.to = JobAt(jobId).poster
                          /\ e.amount = JobAt(jobId).maxPrice - JobAt(jobId).paidAmount

\* a job refunded at the claim and then refunded the rest by a dispute
NoDoublePaymentWitness ==
    \E jobId \in JobIds :
        /\ Transfers(jobId, "claimJob") = 1
        /\ Transfers(jobId, "disputeWork") = 1
        /\ JobAt(jobId).status = "Disputed"

(***************************************************************************)
(* The linear ramp of the specification: minPrice plus the floor of        *)
(* (maxPrice - minPrice) * elapsed / auctionDuration, elapsed capped at    *)
(* auctionDuration.                                                        *)
(***************************************************************************)
Elapsed(job, timestamp) ==
    IF timestamp - job.auctionStart < job.auctionDuration
    THEN timestamp - job.auctionStart
    ELSE job.auctionDuration

RampPrice(job, timestamp) ==
    job.minPrice + ((job.maxPrice - job.minPrice) * Elapsed(job, timestamp)) \div job.auctionDuration

\* every timestamp a uint256 can hold from the start of the auction on
TimesFrom(job) == job.auctionStart .. MaxUint

(***************************************************************************)
(* C7. For every job postJob accepted, the current price is minPrice at    *)
(* elapsed = 0, maxPrice at every elapsed >= auctionDuration, and never    *)
(* decreases as time passes.                                               *)
(***************************************************************************)
PriceRampEndsAndMonotone ==
    \A jobId \in JobIds :
        LET job == JobAt(jobId)
        IN  \A t1 \in TimesFrom(job) :
                /\ ~_getCurrentPrice(job, t1).reverted
                /\ t1 = job.auctionStart => _getCurrentPrice(job, t1).value = job.minPrice
                /\ t1 - job.auctionStart >= job.auctionDuration =>
                        _getCurrentPrice(job, t1).value = job.maxPrice
                /\ \A t2 \in t1 .. MaxUint :
                        /\ ~_getCurrentPrice(job, t2).reverted
                        /\ _getCurrentPrice(job, t1).value <= _getCurrentPrice(job, t2).value

(***************************************************************************)
(* C8. For every existing job and every time from auctionStart on, the     *)
(* current price is minPrice + floor((maxPrice - minPrice) * elapsed /     *)
(* auctionDuration) with elapsed = min(now - auctionStart,                 *)
(* auctionDuration).                                                       *)
(***************************************************************************)
PriceIsRampFormula ==
    \A jobId \in JobIds :
        \A t \in TimesFrom(JobAt(jobId)) :
            _getCurrentPrice(JobAt(jobId), t) = Value(RampPrice(JobAt(jobId), t))

(***************************************************************************)
(* What the code does keep of C7 and C8: the price is the ramp formula     *)
(* whenever _getCurrentPrice returns, and it reverts exactly when          *)
(* auctionStart + auctionDuration does not fit a uint256 (within the       *)
(* prices of PostArgs, whose products with the elapsed time all fit).      *)
(***************************************************************************)
PriceIsRampFormulaUnlessPanic ==
    \A jobId \in JobIds :
        \A t \in TimesFrom(JobAt(jobId)) :
            IF Overflows(JobAt(jobId).auctionStart + JobAt(jobId).auctionDuration)
            THEN _getCurrentPrice(JobAt(jobId), t) = Panic
            ELSE _getCurrentPrice(JobAt(jobId), t) = Value(RampPrice(JobAt(jobId), t))

(***************************************************************************)
(* C9. A committed claimJob at time t locks the current price at t: the    *)
(* job becomes Claimed with agent = caller, agentId as passed, claimedAt   *)
(* = t and paidAmount = the ramp price at t; maxPrice - paidAmount goes    *)
(* back to the poster and exactly paidAmount stays in the contract for     *)
(* the job. Scaled scenario of the test: minPrice 2, maxPrice 4, duration  *)
(* 2, claimed at elapsed 1: locks 3, refunds 1, leaves 3.                  *)
(***************************************************************************)
ClaimLocksCurrentPrice ==
    [][\A caller \in Addr, jobId \in JobIds :
          (/\ last'.op = "claimJob" /\ last'.result = "ok"
           /\ last'.caller = caller /\ last'.jobId = jobId) =>
          LET old == jobs[jobId + 1]
              new == jobs'[jobId + 1]
              price == RampPrice(old, now)
          IN  /\ _getCurrentPrice(old, now) = Value(price)
              /\ \E agentId \in AgentIds, tokenOk \in BOOLEAN :
                    /\ claimJob(caller, jobId, agentId, tokenOk)
                    /\ new = [old EXCEPT !.status = "Claimed", !.agent = caller,
                                         !.agentId = agentId, !.claimedAt = now,
                                         !.paidAmount = price]
              /\ bal' = Transfer(bal, Board, old.poster, old.maxPrice - price)
              /\ EscrowHeld(jobId)' = price
              /\ Refunded(jobId)' = old.maxPrice - price
              /\ last'.value = price
              /\ (/\ old.minPrice = 2 /\ old.maxPrice = 4 /\ old.auctionDuration = 2
                  /\ now - old.auctionStart = 1)
                 => /\ new.paidAmount = 3
                    /\ bal'[old.poster] = bal[old.poster] + 1
                    /\ bal'[Board] = 3]_vars

ClaimLocksCurrentPriceWitness ==
    \E jobId \in JobIds :
        /\ last = Call("claimJob", JobAt(jobId).agent, jobId, "ok", 3)
        /\ JobAt(jobId).minPrice = 2
        /\ JobAt(jobId).maxPrice = 4
        /\ JobAt(jobId).claimedAt = JobAt(jobId).auctionStart + 1
        /\ JobAt(jobId).paidAmount = 3
        /\ bal[Board] = 3

(***************************************************************************)
(* C10. A committed claimJob at elapsed = 0 locks minPrice and refunds     *)
(* maxPrice - minPrice; one at elapsed >= auctionDuration locks maxPrice,  *)
(* refunds nothing and does not call the token at all, so it commits even  *)
(* when the token would refuse a transfer.                                 *)
(***************************************************************************)
ClaimAtRampEnds ==
    /\ [][\A jobId \in JobIds :
             (last'.op = "claimJob" /\ last'.jobId = jobId /\ last'.result = "ok") =>
                 LET old == jobs[jobId + 1]
                     new == jobs'[jobId + 1]
                 IN  /\ now = old.auctionStart =>
                            /\ new.paidAmount = old.minPrice
                            /\ bal' = Transfer(bal, Board, old.poster, old.maxPrice - old.minPrice)
                            /\ Refunded(jobId)' = old.maxPrice - old.minPrice
                     /\ now - old.auctionStart >= old.auctionDuration =>
                            /\ new.paidAmount = old.maxPrice
                            /\ UNCHANGED <<bal, ledger>>]_vars
    /\ [](\A jobId \in JobIds, caller \in Addr :
             (/\ JobAt(jobId).status = "Open"
              /\ caller # JobAt(jobId).poster
              /\ _getCurrentPrice(JobAt(jobId), now) = Value(JobAt(jobId).maxPrice))
             => claimJobResult(caller, jobId, FALSE) = "ok")

\* a ramp claimed once the auction is over: the ceiling is locked and no token moved
ClaimAtRampEndsWitness ==
    \E jobId \in JobIds :
        /\ last.op = "claimJob"
        /\ last.result = "ok"
        /\ JobAt(jobId).minPrice < JobAt(jobId).maxPrice
        /\ JobAt(jobId).claimedAt >= JobAt(jobId).auctionStart + JobAt(jobId).auctionDuration
        /\ JobAt(jobId).paidAmount = JobAt(jobId).maxPrice
        /\ Transfers(jobId, "claimJob") = 0
        /\ bal[Board] = JobAt(jobId).maxPrice

(***************************************************************************)
(* C11. postJob with an empty description, maxPrice = 0, maxPrice <        *)
(* minPrice, auctionDuration = 0 or workDeadline = 0 reverts with the      *)
(* message of a require: no job is pushed, jobs.length stays, no token     *)
(* leaves the caller. Hence every stored job has maxPrice > 0, maxPrice >= *)
(* minPrice, auctionDuration > 0, workDeadline > 0 and a description.      *)
(***************************************************************************)
PostJobRequires ==
    {"Max price must be > 0", "Max must be >= min", "Auction duration must be > 0",
     "Work deadline must be > 0", "Description required"}

\* <<description, minPrice, maxPrice, auctionDuration, workDeadline>> the claim rules out
RejectedArgs(args) ==
    \/ args[1] = ""
    \/ args[3] = 0
    \/ args[3] < args[2]
    \/ args[4] = 0
    \/ args[5] = 0

StoredJobsWellFormed ==
    \A jobId \in JobIds :
        /\ JobAt(jobId).maxPrice > 0
        /\ JobAt(jobId).maxPrice >= JobAt(jobId).minPrice
        /\ JobAt(jobId).auctionDuration > 0
        /\ JobAt(jobId).workDeadline > 0
        /\ JobAt(jobId).description # ""

PostJobRejectsBadArguments ==
    /\ [][last'.op = "postJob" =>
            \A caller \in Addr, args \in PostArgs, tokenOk \in BOOLEAN :
                (/\ last'.caller = caller
                 /\ RejectedArgs(args)
                 /\ postJob(caller, args[1], args[2], args[3], args[4], args[5], tokenOk))
                => /\ last'.result \in PostJobRequires
                   /\ Len(jobs') = Len(jobs)
                   /\ bal'[caller] = bal[caller]
                   /\ UNCHANGED <<jobs, agentStats, bal, ledger>>]_vars
    /\ []StoredJobsWellFormed

\* a call with the floor above the ceiling was just turned down
PostJobRejectsBadArgumentsWitness ==
    /\ last.op = "postJob"
    /\ last.result = "Max must be >= min"
    /\ jobs = << >>
    /\ bal[last.caller] = InitBal

(***************************************************************************)
(* C12. Escrow failure is atomic: when the token transfer of postJob,      *)
(* claimJob, approveWork, disputeWork, cancelJob or expireJob fails, the   *)
(* call reverts and nothing is left of it: no job is pushed, the job's     *)
(* status, agent, claimedAt, paidAmount and rating, jobs.length and all    *)
(* agent statistics are as before the call. The calls looked at are those  *)
(* that would have committed had the token accepted the transfer.          *)
(***************************************************************************)
NoEffect == UNCHANGED <<jobs, agentStats, bal, ledger>>

TransferFailedWithoutEffect == last'.result = "transfer failed" /\ NoEffect

EscrowFailureAtomic ==
    [][/\ last'.result = "transfer failed" => NoEffect
       /\ \A caller \in Addr :
            (last'.op = "postJob" /\ last'.caller = caller) =>
                \A args \in PostArgs :
                    (/\ postJobResult(caller, args[1], args[2], args[3], args[4], args[5], TRUE) = "ok"
                     /\ postJob(caller, args[1], args[2], args[3], args[4], args[5], FALSE))
                    => TransferFailedWithoutEffect /\ Len(jobs') = Len(jobs)
       /\ \A caller \in Addr, jobId \in JobIds :
            (last'.caller = caller /\ last'.jobId = jobId) =>
                /\ \A agentId \in AgentIds :
                      (/\ last'.op = "claimJob"
                       /\ claimJobResult(caller, jobId, TRUE) = "ok"
                       /\ claimJobTransfers(claimJobRefund(JobAt(jobId),
                                                _getCurrentPrice(JobAt(jobId), now).value))
                       /\ claimJob(caller, jobId, agentId, FALSE))
                      => TransferFailedWithoutEffect
                /\ \A rating \in Ratings :
                      (/\ last'.op = "approveWork"
                       /\ approveWorkResult(caller, jobId, rating, TRUE) = "ok"
                       /\ approveWork(caller, jobId, rating, FALSE))
                      => TransferFailedWithoutEffect
                /\ (last'.op = "disputeWork" /\ disputeWorkResult(caller, jobId, TRUE) = "ok" /\ disputeWork(caller, jobId, FALSE))
                      => TransferFailedWithoutEffect
                /\ (last'.op = "cancelJob" /\ cancelJobResult(caller, jobId, TRUE) = "ok" /\ cancelJob(caller, jobId, FALSE))
                      => TransferFailedWithoutEffect
                /\ (last'.op = "expireJob" /\ expireJobResult(caller, jobId, TRUE) = "ok" /\ expireJob(caller, jobId, FALSE))
                      => TransferFailedWithoutEffect]_vars

\* the payment of an approved submission was refused: the job is still Submitted
EscrowFailureAtomicWitness ==
    /\ last.op = "approveWork"
    /\ last.result = "transfer failed"
    /\ JobExists(last.jobId)
    /\ JobAt(last.jobId).status = "Submitted"
    /\ JobAt(last.jobId).rating = 0
    /\ agentStats[JobAt(last.jobId).agent] = NoStats
    /\ bal[Board] = JobAt(last.jobId).paidAmount

(***************************************************************************)
(* C13. Job ids are sequential and never reused: the k-th postJob that     *)
(* commits returns k, which is jobs.length just before the call; it makes  *)
(* jobs.length one larger, stores an Open job with auctionStart = now at   *)
(* that id and the contract holds maxPrice more. No other call changes     *)
(* jobs.length, and no call moves or removes a stored job: the fields      *)
(* postJob wrote stay at the same id.                                      *)
(***************************************************************************)
\* the postJob calls that have committed so far
PostCount == Len(SelectSeq(ledger, LAMBDA entries : entries[1].op = "postJob"))

\* what postJob stores and no operation writes again
Posted(job) ==
    <<job.poster, job.description, job.minPrice, job.maxPrice,
      job.auctionStart, job.auctionDuration, job.workDeadline>>

SequentialJobIds ==
    [][/\ \A jobId \in JobIds :
            /\ jobId \in 0 .. Len(jobs') - 1
            /\ Posted(jobs'[jobId + 1]) = Posted(jobs[jobId + 1])
       /\ IF last'.op = "postJob" /\ last'.result = "ok"
          THEN /\ last'.value = Len(jobs)
               /\ last'.value = PostCount
               /\ Len(jobs') = Len(jobs) + 1
               /\ \A jobId \in JobIds : jobs'[jobId + 1] = jobs[jobId + 1]
               /\ jobs'[Len(jobs')].status = "Open"
               /\ jobs'[Len(jobs')].auctionStart = now
               /\ jobs'[Len(jobs')].poster = last'.caller
               /\ bal'[Board] = bal[Board] + jobs'[Len(jobs')].maxPrice
          ELSE Len(jobs') = Len(jobs)]_vars

\* the second job was posted, by another account, after the first was settled
SequentialJobIdsWitness ==
    /\ last.op = "postJob"
    /\ last.result = "ok"
    /\ last.value = 1
    /\ Len(jobs) = 2
    /\ JobAt(0).status \in TerminalStatus
    /\ JobAt(0).poster # JobAt(1).poster
    /\ JobAt(1).status = "Open"

(***************************************************************************)
(* C14. claimJob by the poster of an Open job reverts with "Poster cannot  *)
(* claim own job" and changes nothing; hence in every reachable state a    *)
(* job that has an agent has an agent other than its poster.               *)
(***************************************************************************)
AgentIsNotPoster ==
    \A jobId \in JobIds :
        JobAt(jobId).agent # ZeroAddress => JobAt(jobId).agent # JobAt(jobId).poster

PosterCannotClaim ==
    /\ [][\A jobId \in JobIds :
            (/\ last'.op = "claimJob"
             /\ last'.jobId = jobId
             /\ last'.caller = JobAt(jobId).poster
             /\ JobAt(jobId).status = "Open")
            => /\ last'.result = "Poster cannot claim own job"
               /\ UNCHANGED <<jobs, agentStats, bal, ledger>>]_vars
    /\ []AgentIsNotPoster

\* the poster tried to claim the job while it was on offer
PosterCannotClaimWitness ==
    /\ last.op = "claimJob"
    /\ JobExists(last.jobId)
    /\ last.caller = JobAt(last.jobId).poster
    /\ JobAt(last.jobId).status = "Open"
    /\ JobAt(last.jobId).agent = ZeroAddress

(***************************************************************************)
(* C15. submitWork commits exactly when the job is Claimed, the caller is  *)
(* its agent, the URI is not empty and now <= claimedAt + workDeadline,    *)
(* the instant now = claimedAt + workDeadline included. A commit sets the  *)
(* status to Submitted and stores the URI; no token moves and no agent     *)
(* statistic changes. A call at now > claimedAt + workDeadline reverts     *)
(* with "Work deadline passed" and the job stays Claimed.                  *)
(***************************************************************************)
\* the conditions of the claim, the deadline taken as a number, not as a uint256
SubmitWorkAccepted(caller, job, submissionURI) ==
    /\ job.status = "Claimed"
    /\ caller = job.agent
    /\ submissionURI # ""
    /\ now <= job.claimedAt + job.workDeadline

SubmitWorkOutcome(caller, jobId, submissionURI) ==
    LET job == JobAt(jobId)
    IN  /\ last'.result = "ok" <=> SubmitWorkAccepted(caller, job, submissionURI)
        /\ last'.result = "ok" =>
                /\ jobs'[jobId + 1] = [job EXCEPT !.status = "Submitted",
                                                   !.submissionURI = submissionURI]
                /\ UNCHANGED <<agentStats, bal, ledger>>
        /\ last'.result # "ok" => UNCHANGED <<jobs, agentStats, bal, ledger>>
        /\ (/\ job.status = "Claimed" /\ caller = job.agent /\ submissionURI # ""
            /\ now > job.claimedAt + job.workDeadline)
           => last'.result = "Work deadline passed"

SubmitWorkExactly ==
    [][last'.op = "submitWork" =>
       \A caller \in Addr, jobId \in JobIds, submissionURI \in SubmissionURIs :
          (/\ last'.op = "submitWork"
           /\ last'.caller = caller
           /\ last'.jobId = jobId
           /\ submitWork(caller, jobId, submissionURI))
          => SubmitWorkOutcome(caller, jobId, submissionURI)]_vars

\* the same, the calls in which claimedAt + workDeadline overflows left aside
SubmitWorkExactlyUnlessPanic ==
    [][last'.op = "submitWork" =>
       \A caller \in Addr, jobId \in JobIds, submissionURI \in SubmissionURIs :
          (/\ last'.op = "submitWork"
           /\ last'.caller = caller
           /\ last'.jobId = jobId
           /\ last'.result # "Panic(0x11)"
           /\ submitWork(caller, jobId, submissionURI))
          => SubmitWorkOutcome(caller, jobId, submissionURI)]_vars

(***************************************************************************)
(* C16. An approveWork(jobId, rating) that commits finds the job Submitted *)
(* and sets its status to Completed, stores the rating, pays exactly       *)
(* paidAmount from the contract to the agent, and adds 1 to completedJobs, *)
(* paidAmount to totalEarned and the rating to totalRating of the agent;   *)
(* disputedJobs of the agent and all statistics of every other account     *)
(* stay as they are.                                                       *)
(***************************************************************************)
ApproveWorkEffect ==
    [][\A jobId \in JobIds :
          (last'.op = "approveWork" /\ last'.result = "ok" /\ last'.jobId = jobId) =>
          LET job == JobAt(jobId)
              new == jobs'[jobId + 1]
              before == agentStats[job.agent]
              after == agentStats'[job.agent]
          IN  /\ job.status = "Submitted"
              /\ last'.caller = job.poster
              /\ new.rating \in 0 .. 100
              /\ approveWork(job.poster, jobId, new.rating, TRUE)
              /\ new = [job EXCEPT !.status = "Completed", !.rating = new.rating]
              /\ after.totalRating = before.totalRating + new.rating
              /\ bal' = Transfer(bal, Board, job.agent, job.paidAmount)
              /\ bal'[job.agent] = bal[job.agent] + job.paidAmount
              /\ PaidOut(jobId)' = job.paidAmount
              /\ EscrowHeld(jobId)' = 0
              /\ after.completedJobs = before.completedJobs + 1
              /\ after.totalEarned = before.totalEarned + job.paidAmount
              /\ after.disputedJobs = before.disputedJobs
              /\ \A a \in Addr \ {job.agent} : agentStats'[a] = agentStats[a]
              /\ \A other \in JobIds \ {jobId} : jobs'[other + 1] = jobs[other + 1]]_vars

\* the agent's second job was approved, below the ceiling, on top of earlier earnings
ApproveWorkEffectWitness ==
    /\ last.op = "approveWork"
    /\ last.result = "ok"
    /\ JobExists(last.jobId)
    /\ JobAt(last.jobId).status = "Completed"
    /\ JobAt(last.jobId).paidAmount < JobAt(last.jobId).maxPrice
    /\ agentStats[JobAt(last.jobId).agent].completedJobs = 2
    /\ agentStats[JobAt(last.jobId).agent].totalRating = 160
    /\ agentStats[JobAt(last.jobId).agent].totalEarned = 3

(***************************************************************************)
(* C17. A disputeWork that commits is called by the poster on a Submitted  *)
(* job; it sets the status to Disputed, sends the whole paidAmount back to *)
(* the poster and adds 1 to disputedJobs of the agent. completedJobs,      *)
(* totalEarned and totalRating stay, no rating is stored and the agent     *)
(* receives nothing.                                                       *)
(***************************************************************************)
DisputeWorkEffect ==
    [][\A jobId \in JobIds :
          (last'.op = "disputeWork" /\ last'.result = "ok" /\ last'.jobId = jobId) =>
          LET job == JobAt(jobId)
              new == jobs'[jobId + 1]
              before == agentStats[job.agent]
              after == agentStats'[job.agent]
          IN  /\ job.status = "Submitted"
              /\ last'.caller = job.poster
              /\ disputeWork(job.poster, jobId, TRUE)
              /\ new = [job EXCEPT !.status = "Disputed"]
              /\ new.rating = 0
              /\ bal' = Transfer(bal, Board, job.poster, job.paidAmount)
              /\ bal'[job.poster] = bal[job.poster] + job.paidAmount
              /\ bal'[job.agent] = bal[job.agent]
              /\ PaidOut(jobId)' = 0
              /\ EscrowHeld(jobId)' = 0
              /\ after.disputedJobs = before.disputedJobs + 1
              /\ after.completedJobs = before.completedJobs
              /\ after.totalEarned = before.totalEarned
              /\ after.totalRating = before.totalRating
              /\ \A a \in Addr \ {job.agent} : agentStats'[a] = agentStats[a]
              /\ \A other \in JobIds \ {jobId} : jobs'[other + 1] = jobs[other + 1]]_vars

\* a dispute against an agent who had a job approved before
DisputeWorkEffectWitness ==
    /\ last.op = "disputeWork"
    /\ last.result = "ok"
    /\ JobExists(last.jobId)
    /\ JobAt(last.jobId).status = "Disputed"
    /\ JobAt(last.jobId).paidAmount > 0
    /\ agentStats[JobAt(last.jobId).agent].disputedJobs = 1
    /\ agentStats[JobAt(last.jobId).agent].completedJobs = 1
    /\ agentStats[JobAt(last.jobId).agent].totalEarned > 0

(***************************************************************************)
(* C18. cancelJob by the poster commits only while the job is Open: it     *)
(* then sets the status to Cancelled and sends the whole maxPrice back to  *)
(* the poster. On a Claimed job, or a job in any other status than Open,   *)
(* cancelJob by the poster reverts with "Job not open" and no token moves. *)
(***************************************************************************)
CancelOnlyWhileOpen ==
    [][\A jobId \in JobIds :
          (/\ last'.op = "cancelJob"
           /\ last'.jobId = jobId
           /\ last'.caller = JobAt(jobId).poster) =>
          LET job == JobAt(jobId)
          IN  IF job.status = "Open"
              THEN /\ last'.result \in {"ok", "transfer failed"}
                   /\ cancelJob(job.poster, jobId, TRUE) => last'.result = "ok"
                   /\ last'.result = "ok" =>
                        /\ jobs'[jobId + 1] = [job EXCEPT !.status = "Cancelled"]
                        /\ bal' = Transfer(bal, Board, job.poster, job.maxPrice)
                        /\ bal'[job.poster] = bal[job.poster] + job.maxPrice
                        /\ Refunded(jobId)' = job.maxPrice
                        /\ agentStats' = agentStats
                   /\ last'.result = "transfer failed" =>
                        UNCHANGED <<jobs, agentStats, bal, ledger>>
              ELSE /\ last'.result = "Job not open"
                   /\ UNCHANGED <<jobs, agentStats, bal, ledger>>]_vars

\* the poster tried to cancel a job an agent had claimed
CancelOnlyWhileOpenWitness ==
    /\ last.op = "cancelJob"
    /\ last.result = "Job not open"
    /\ JobExists(last.jobId)
    /\ last.caller = JobAt(last.jobId).poster
    /\ JobAt(last.jobId).status = "Claimed"
    /\ bal[Board] = JobAt(last.jobId).paidAmount
    /\ bal[Board] > 0

(***************************************************************************)
(* C19. expireJob may be called by any account, the poster, the agent or a *)
(* third party, and commits exactly when the job is Claimed and now >      *)
(* claimedAt + workDeadline: the status becomes Expired and paidAmount     *)
(* goes back to the poster. While now <= claimedAt + workDeadline it       *)
(* reverts with "Deadline not yet passed", on a job that is not Claimed    *)
(* with "Job not in claimed state"; a reverted call changes nothing. A     *)
(* refund the token refuses (C12) is the one other way the call can fail.  *)
(***************************************************************************)
ExpireJobOutcome(jobId) ==
    LET job == JobAt(jobId)
    IN  IF job.status # "Claimed"
        THEN /\ last'.result = "Job not in claimed state"
             /\ UNCHANGED <<jobs, agentStats, bal, ledger>>
        ELSE IF now <= job.claimedAt + job.workDeadline
        THEN /\ last'.result = "Deadline not yet passed"
             /\ UNCHANGED <<jobs, agentStats, bal, ledger>>
        ELSE /\ last'.result \in {"ok", "transfer failed"}
             /\ expireJob(last'.caller, jobId, TRUE) => last'.result = "ok"
             /\ last'.result = "ok" =>
                    /\ jobs'[jobId + 1] = [job EXCEPT !.status = "Expired"]
                    /\ bal' = Transfer(bal, Board, job.poster, job.paidAmount)
                    /\ Refunded(jobId)' = job.maxPrice
                    /\ agentStats' = agentStats
             /\ last'.result = "transfer failed" =>
                    UNCHANGED <<jobs, agentStats, bal, ledger>>

ExpireJobExactly ==
    [][\A jobId \in JobIds :
          (last'.op = "expireJob" /\ last'.jobId = jobId) => ExpireJobOutcome(jobId)]_vars

\* the same, the calls in which claimedAt + workDeadline overflows left aside
ExpireJobExactlyUnlessPanic ==
    [][\A jobId \in JobIds :
          (/\ last'.op = "expireJob"
           /\ last'.jobId = jobId
           /\ last'.result # "Panic(0x11)") => ExpireJobOutcome(jobId)]_vars

\* every account has a way to expire a job that is past its deadline
ExpireJobByAnyone ==
    \A caller \in Addr, jobId \in JobIds :
        (/\ JobAt(jobId).status = "Claimed"
         /\ ~Overflows(JobAt(jobId).claimedAt + JobAt(jobId).workDeadline)
         /\ now > JobAt(jobId).claimedAt + JobAt(jobId).workDeadline)
        => expireJobResult(caller, jobId, TRUE) = "ok"

(***************************************************************************)
(* C20. Only the poster of a job can approve, dispute or cancel it and     *)
(* only its agent can submit work: approveWork, disputeWork or cancelJob   *)
(* by any other caller reverts with the "Only poster can ..." message of   *)
(* the operation, submitWork by any caller other than the agent reverts    *)
(* with "Only assigned agent", whatever the status of the job, and nothing *)
(* changes and no token moves.                                             *)
(***************************************************************************)
RoleChecked == {"approveWork", "disputeWork", "cancelJob", "submitWork"}

OnlyPosterOnlyAgent ==
    [][\A jobId \in JobIds :
          (/\ last'.op \in RoleChecked
           /\ last'.jobId = jobId)
          => IF PassesCallerCheck(last'.op, last'.caller, JobAt(jobId))
             THEN last'.result # CallerError(last'.op)
             ELSE /\ last'.result = CallerError(last'.op)
                  /\ UNCHANGED <<jobs, agentStats, bal, ledger>>]_vars

\* an account that is not the agent tried to submit work for a job that was
\* not even in the Claimed status
OnlyPosterOnlyAgentWitness ==
    /\ last.op = "submitWork"
    /\ last.result = "Only assigned agent"
    /\ JobExists(last.jobId)
    /\ JobAt(last.jobId).status = "Submitted"
    /\ last.caller # JobAt(last.jobId).agent
    /\ last.caller # JobAt(last.jobId).poster

(***************************************************************************)
(* C21. approveWork with a rating above 100 does not commit: called by the *)
(* poster on a Submitted job it reverts with "Rating must be 0-100", the   *)
(* job stays Submitted and nothing is paid. In every reachable state the   *)
(* rating of every job is in 0 .. 100; only an approveWork that commits    *)
(* writes a rating, so a job that is not Completed has rating 0, the value *)
(* postJob stored.                                                         *)
(***************************************************************************)
RatingsStored ==
    \A jobId \in JobIds :
        /\ JobAt(jobId).rating \in 0 .. 100
        /\ JobAt(jobId).status # "Completed" => JobAt(jobId).rating = 0

RatingInRange ==
    /\ [][last'.op = "approveWork" =>
            \A caller \in Addr, jobId \in JobIds, rating \in Ratings, tokenOk \in BOOLEAN :
                (/\ last'.caller = caller
                 /\ last'.jobId = jobId
                 /\ rating > 100
                 /\ approveWork(caller, jobId, rating, tokenOk))
                => /\ last'.result # "ok"
                   /\ UNCHANGED <<jobs, agentStats, bal, ledger>>
                   /\ (caller = JobAt(jobId).poster /\ JobAt(jobId).status = "Submitted")
                        => /\ last'.result = "Rating must be 0-100"
                           /\ jobs'[jobId + 1].status = "Submitted"
                           /\ bal'[JobAt(jobId).agent] = bal[JobAt(jobId).agent]]_vars
    /\ [][\A jobId \in JobIds :
            jobs'[jobId + 1].rating # jobs[jobId + 1].rating
            => /\ last'.op = "approveWork"
               /\ last'.result = "ok"
               /\ last'.jobId = jobId]_vars
    /\ []RatingsStored

\* the poster rated a submission 101
RatingInRangeWitness ==
    /\ last.op = "approveWork"
    /\ last.result = "Rating must be 0-100"
    /\ JobExists(last.jobId)
    /\ JobAt(last.jobId).status = "Submitted"
    /\ JobAt(last.jobId).rating = 0
    /\ bal[Board] = JobAt(last.jobId).paidAmount

(***************************************************************************)
(* C22. A call that reverts on a validation error (a postJob require, the  *)
(* rating, the URI), on a state or caller error ("Job not open", "Job not  *)
(* claimed", "Job not submitted", "Job not in claimed state", "Only poster *)
(* can ...", "Only assigned agent", "Work deadline passed", "Deadline not  *)
(* yet passed", "Poster cannot claim own job") or on an unknown job id     *)
(* leaves the whole state as it was: all jobs, jobs.length, all agent      *)
(* statistics and all token balances.                                      *)
(***************************************************************************)
ValidationErrors == PostJobRequires \cup {"Rating must be 0-100", "Submission URI required"}

StateErrors ==
    {"Job not open", "Job not claimed", "Job not submitted", "Job not in claimed state",
     "Only poster can approve", "Only poster can dispute", "Only poster can cancel",
     "Only assigned agent", "Work deadline passed", "Deadline not yet passed",
     "Poster cannot claim own job"}

NotFoundErrors == {"Panic(0x32)", "Job does not exist"}

RejectionLeavesState ==
    [][last'.result \in ValidationErrors \cup StateErrors \cup NotFoundErrors
       => /\ jobs' = jobs
          /\ Len(jobs') = Len(jobs)
          /\ agentStats' = agentStats
          /\ bal' = bal
          /\ ledger' = ledger]_vars

\* a late submission was turned down while the contract held the job's escrow
RejectionLeavesStateWitness ==
    /\ last.op = "submitWork"
    /\ last.result = "Work deadline passed"
    /\ JobExists(last.jobId)
    /\ JobAt(last.jobId).status = "Claimed"
    /\ JobAt(last.jobId).submissionURI = ""
    /\ bal[Board] = JobAt(last.jobId).paidAmount

(***************************************************************************)
(* C23. getCurrentPrice, claimJob, submitWork, approveWork, disputeWork,   *)
(* cancelJob and expireJob called with an id that is not below jobs.length *)
(* fail as not found, getCurrentPrice with "Job does not exist" and the    *)
(* others on the bounds check of jobs[jobId], and change no state.         *)
(***************************************************************************)
JobAddressed == Mutators \cup {"getCurrentPrice"}

UnknownJobNotFound ==
    [][(last'.op \in JobAddressed /\ last'.jobId >= Len(jobs))
       => /\ last'.result = IF last'.op = "getCurrentPrice"
                            THEN "Job does not exist" ELSE "Panic(0x32)"
          /\ last'.result \in NotFoundErrors
          /\ UNCHANGED <<jobs, agentStats, bal, ledger>>]_vars

\* an id one past the last job was passed to expireJob while a job was claimed
UnknownJobNotFoundWitness ==
    /\ last.op = "expireJob"
    /\ last.jobId = Len(jobs)
    /\ last.result = "Panic(0x32)"
    /\ Len(jobs) = 1
    /\ JobAt(0).status = "Claimed"

(***************************************************************************)
(* C24. In every reachable state an Open or Cancelled job has no agent, no *)
(* claimedAt and paidAmount 0, and a Claimed, Submitted, Completed,        *)
(* Disputed or Expired job has an agent: the caller of the one claimJob    *)
(* that committed on it.                                                   *)
(***************************************************************************)
Unclaimed(job) == job.agent = ZeroAddress /\ job.claimedAt = 0 /\ job.paidAmount = 0 /\ job.agentId = 0

AgentSetIffClaimed ==
    \A jobId \in JobIds :
        IF JobAt(jobId).status \in {"Open", "Cancelled"}
        THEN Unclaimed(JobAt(jobId))
        ELSE JobAt(jobId).agent \in Addr /\ JobAt(jobId).claimedAt > 0

AgentIsTheClaimer ==
    /\ []AgentSetIffClaimed
    /\ [][\A jobId \in JobIds :
            IF last'.op = "claimJob" /\ last'.result = "ok" /\ last'.jobId = jobId
            THEN /\ JobAt(jobId).status = "Open"
                 /\ Unclaimed(JobAt(jobId))
                 /\ jobs'[jobId + 1].agent = last'.caller
                 /\ jobs'[jobId + 1].status = "Claimed"
            ELSE jobs'[jobId + 1].agent = jobs[jobId + 1].agent]_vars

\* a job that expired still names the agent who had claimed it
AgentIsTheClaimerWitness ==
    \E jobId \in JobIds :
        /\ JobAt(jobId).status = "Expired"
        /\ JobAt(jobId).agent = "agent2"
        /\ JobAt(jobId).claimedAt > JobAt(jobId).auctionStart

(***************************************************************************)
(* C25. The fields postJob writes (poster, description, minPrice,          *)
(* maxPrice, auctionStart, auctionDuration, workDeadline) never change     *)
(* afterwards, whatever is called later on that job or on any other job,   *)
(* and whichever time passes.                                              *)
(***************************************************************************)
CreationFieldsImmutable ==
    [][\A jobId \in JobIds :
          /\ JobExists(jobId)'
          /\ jobs'[jobId + 1].poster = jobs[jobId + 1].poster
          /\ jobs'[jobId + 1].description = jobs[jobId + 1].description
          /\ jobs'[jobId + 1].minPrice = jobs[jobId + 1].minPrice
          /\ jobs'[jobId + 1].maxPrice = jobs[jobId + 1].maxPrice
          /\ jobs'[jobId + 1].auctionStart = jobs[jobId + 1].auctionStart
          /\ jobs'[jobId + 1].auctionDuration = jobs[jobId + 1].auctionDuration
          /\ jobs'[jobId + 1].workDeadline = jobs[jobId + 1].workDeadline]_vars

\* two jobs of different posters, posted at different times, both taken to an end
CreationFieldsImmutableWitness ==
    /\ Len(jobs) = 2
    /\ JobAt(0).status = "Expired"
    /\ JobAt(1).status = "Completed"
    /\ JobAt(0).poster # JobAt(1).poster
    /\ JobAt(0).auctionStart < JobAt(1).auctionStart
    /\ JobAt(0).description = "d"

(***************************************************************************)
(* C26. agent, agentId, claimedAt and paidAmount of a job are written      *)
(* once, by the claimJob that commits, and never change afterwards. What   *)
(* approveWork pays and what disputeWork or expireJob refunds is exactly   *)
(* the paidAmount fixed at the time of the claim, the price of that time,  *)
(* however much time has passed since.                                     *)
(***************************************************************************)
ClaimFields(job) == <<job.agent, job.agentId, job.claimedAt, job.paidAmount>>

Settlements == {"approveWork", "disputeWork", "expireJob"}

ClaimFieldsWrittenOnce ==
    [][\A jobId \in JobIds :
          LET job == JobAt(jobId)
              new == jobs'[jobId + 1]
              entries == ledger'[jobId + 1]
          IN  /\ ClaimFields(new) # ClaimFields(job) =>
                    /\ last'.op = "claimJob" /\ last'.result = "ok" /\ last'.jobId = jobId
                    /\ job.status = "Open"
                    /\ Unclaimed(job)
                    /\ new.claimedAt = now
                    /\ new.paidAmount = _getCurrentPrice(job, now).value
              /\ (last'.op \in Settlements /\ last'.result = "ok" /\ last'.jobId = jobId) =>
                    /\ entries[Len(entries)].op = last'.op
                    /\ entries[Len(entries)].amount = job.paidAmount
                    /\ entries[Len(entries)].to =
                            (IF last'.op = "approveWork" THEN job.agent ELSE job.poster)
                    /\ job.paidAmount = _getCurrentPrice(job, job.claimedAt).value
                    /\ bal'[Board] = bal[Board] - job.paidAmount]_vars

\* the agent was paid the price of the claim although the ramp had gone up since
ClaimFieldsWrittenOnceWitness ==
    /\ last.op = "approveWork"
    /\ last.result = "ok"
    /\ JobExists(last.jobId)
    /\ JobAt(last.jobId).status = "Completed"
    /\ now > JobAt(last.jobId).claimedAt
    /\ last.value = JobAt(last.jobId).paidAmount
    /\ _getCurrentPrice(JobAt(last.jobId), now).value > JobAt(last.jobId).paidAmount

(***************************************************************************)
(* C27. getAgentStats reports, computed at the time of the query, the      *)
(* average rating floor(totalRating / completedJobs) of an agent with      *)
(* completedJobs > 0, and "no rating" for an agent with completedJobs = 0: *)
(* a value that cannot be taken for an average, all of which lie in        *)
(* 0 .. 100. It never fails and never changes the state.                   *)
(***************************************************************************)
AverageRatings == 0 .. 100

\* the largest q with q * completedJobs <= totalRating
FloorAverage(stats) ==
    CHOOSE q \in AverageRatings :
        /\ q * stats.completedJobs <= stats.totalRating
        /\ (q + 1) * stats.completedJobs > stats.totalRating

StatsOfAverage ==
    last.op = "getAgentStats" =>
        LET stats == agentStats[last.value.agent]
        IN  /\ last.result = "ok"
            /\ IF stats.completedJobs > 0
               THEN last.value.avgRating = FloorAverage(stats)
               ELSE last.value.avgRating \notin AverageRatings

\* the part of C27 that is about rated agents, and the frame of the query
StatsOfAverageWhenRated ==
    [][\A agent \in Addr :
          (last'.op = "getAgentStats" /\ last'.value.agent = agent) =>
              /\ getAgentStats(agent)
              /\ last'.result = "ok"
              /\ UNCHANGED <<jobs, agentStats, bal, ledger, now>>
              /\ last'.value.completedJobs = agentStats[agent].completedJobs
              /\ last'.value.disputedJobs = agentStats[agent].disputedJobs
              /\ last'.value.totalEarned = agentStats[agent].totalEarned
              /\ agentStats[agent].completedJobs > 0 =>
                    last'.value.avgRating = FloorAverage(agentStats[agent])]_vars

\* an average that is not a whole number was asked for: 135 / 2
StatsOfAverageWhenRatedWitness ==
    /\ last.op = "getAgentStats"
    /\ last.value.completedJobs = 2
    /\ agentStats[last.value.agent].totalRating = 135
    /\ last.value.avgRating = 67

(***************************************************************************)
(* C28. Agent statistics change only in an approveWork or a disputeWork    *)
(* that commits, and only those of the agent of that job. postJob,         *)
(* claimJob, submitWork, cancelJob, expireJob and every call that reverts  *)
(* leave completedJobs, disputedJobs, totalEarned and totalRating of every *)
(* account as they are; an expiry does not count as a dispute.             *)
(***************************************************************************)
StatsWriters == {"approveWork", "disputeWork"}

StatsChangeOnlyOnVerdict ==
    [][/\ agentStats' # agentStats =>
            /\ last'.op \in StatsWriters
            /\ last'.result = "ok"
            /\ JobExists(last'.jobId)
            /\ \A a \in Addr \ {JobAt(last'.jobId).agent} : agentStats'[a] = agentStats[a]
       /\ (last'.op \notin StatsWriters \/ last'.result # "ok") => agentStats' = agentStats
       /\ (last'.op = "expireJob" /\ last'.result = "ok") =>
            \A a \in Addr : agentStats'[a].disputedJobs = agentStats[a].disputedJobs]_vars

\* a job expired on an agent whose record stays clean
StatsChangeOnlyOnVerdictWitness ==
    /\ last.op = "expireJob"
    /\ last.result = "ok"
    /\ JobExists(last.jobId)
    /\ JobAt(last.jobId).status = "Expired"
    /\ agentStats[JobAt(last.jobId).agent] = NoStats

(***************************************************************************)
(* C29. Job isolation: a call on one job leaves every field of every other *)
(* job and the tokens held for it unchanged, and leaves the outcome of     *)
(* every call that can be made on the other job unchanged as well. Calls   *)
(* on different jobs therefore commute: interleaved in any order they end  *)
(* in the per-job states and held amounts they reach when each job's calls *)
(* run alone in the same per-job order.                                    *)
(***************************************************************************)
\* what each operation would answer on the job, for every caller
OutcomesOn(jobId) ==
    [caller \in Addr |->
        << claimJobResult(caller, jobId, TRUE),
           submitWorkResult(caller, jobId, "ipfs"),
           [rating \in RatingsMulti |-> approveWorkResult(caller, jobId, rating, TRUE)],
           disputeWorkResult(caller, jobId, TRUE),
           cancelJobResult(caller, jobId, TRUE),
           expireJobResult(caller, jobId, TRUE) >>]

JobIsolation ==
    [][\A other \in JobIds :
          (last'.op # "none" /\ last'.jobId # other) =>
              /\ jobs'[other + 1] = jobs[other + 1]
              /\ ledger'[other + 1] = ledger[other + 1]
              /\ EscrowHeld(other)' = EscrowHeld(other)
              /\ OutcomesOn(other)' = OutcomesOn(other)]_vars

\* the second job of a poster was approved while the first, taken by the same
\* agent, was waiting for its verdict
JobIsolationWitness ==
    /\ last.op = "approveWork"
    /\ last.result = "ok"
    /\ last.jobId = 1
    /\ Len(jobs) = 2
    /\ JobAt(0).status = "Submitted"
    /\ JobAt(0).poster = JobAt(1).poster
    /\ JobAt(0).agent = JobAt(1).agent
    /\ EscrowHeld(0) = JobAt(0).paidAmount
    /\ EscrowHeld(0) > 0

(***************************************************************************)
(* C30. In claimJob, approveWork, disputeWork, cancelJob and expireJob the *)
(* job and the agent statistics are written only after the token transfer  *)
(* has succeeded: while the transfer is in flight, a call made from inside  *)
(* it still reads the job and the statistics as they were before the       *)
(* transaction; it never reads the new status with the transfer not yet    *)
(* made.                                                                   *)
(***************************************************************************)
WritesAfterTransfer ==
    (InFlight /\ last.op # "postJob" /\ last.value.nested = NoCall) =>
        /\ JobAt(last.jobId).status = last.value.jobs[last.jobId + 1].status
        /\ jobs = last.value.jobs
        /\ agentStats = last.value.agentStats

\* what the code does instead: the writes are all made when the token is called,
\* and a refusal of the token takes them back
WritesBeforeTransfer ==
    /\ []((InFlight /\ last.op # "postJob") =>
            /\ JobAt(last.jobId).status # last.value.jobs[last.jobId + 1].status
            /\ bal[Board] = SumAmounts([i \in 1 .. Len(jobs) |->
                                [amount |-> Outstanding(last.value.jobs[i])]]))
    /\ [][(InFlight /\ last'.result = "transfer failed") =>
            /\ jobs' = last.value.jobs
            /\ agentStats' = last.value.agentStats
            /\ bal' = bal]_vars

\* the payment of an approved job is in flight: the job reads Completed and the
\* agent's statistics count it, the tokens are still with the contract
WritesBeforeTransferWitness ==
    /\ InFlight
    /\ last.op = "approveWork"
    /\ JobAt(last.jobId).status = "Completed"
    /\ agentStats[JobAt(last.jobId).agent].completedJobs = 1
    /\ bal[Board] = JobAt(last.jobId).paidAmount
    /\ last.value.amount = JobAt(last.jobId).paidAmount

(***************************************************************************)
(* C31. A Claimed job is never stuck: whatever workDeadline postJob        *)
(* accepted and whatever the time, exactly one way out is open, submitWork *)
(* by the agent with a URI while now <= claimedAt + workDeadline, and      *)
(* expireJob by anyone once now > claimedAt + workDeadline, also when      *)
(* claimedAt + workDeadline does not fit a uint256.                        *)
(***************************************************************************)
CanSubmit(jobId) == submitWorkResult(JobAt(jobId).agent, jobId, "ipfs") = "ok"

CanExpire(jobId) == \A caller \in Addr : expireJobResult(caller, jobId, TRUE) = "ok"

ClaimedJobHasExit ==
    \A jobId \in JobIds :
        JobAt(jobId).status = "Claimed" =>
            /\ CanSubmit(jobId) <=> now <= JobAt(jobId).claimedAt + JobAt(jobId).workDeadline
            /\ CanExpire(jobId) <=> now > JobAt(jobId).claimedAt + JobAt(jobId).workDeadline
            /\ CanSubmit(jobId) # CanExpire(jobId)

\* the same for the jobs whose claimedAt + workDeadline fits a uint256
ClaimedJobHasExitUnlessOverflow ==
    \A jobId \in JobIds :
        (/\ JobAt(jobId).status = "Claimed"
         /\ ~Overflows(JobAt(jobId).claimedAt + JobAt(jobId).workDeadline)) =>
            /\ CanSubmit(jobId) <=> now <= JobAt(jobId).claimedAt + JobAt(jobId).workDeadline
            /\ CanExpire(jobId) <=> now > JobAt(jobId).claimedAt + JobAt(jobId).workDeadline
            /\ CanSubmit(jobId) # CanExpire(jobId)

\* a claimed job out of which no call leads, now or at any later time
ClaimedJobStuck ==
    \E jobId \in JobIds :
        /\ JobAt(jobId).status = "Claimed"
        /\ Overflows(JobAt(jobId).claimedAt + JobAt(jobId).workDeadline)
        /\ ~CanSubmit(jobId)
        /\ \A caller \in Addr : expireJobResult(caller, jobId, TRUE) = "Panic(0x11)"
        /\ \A caller \in Addr : cancelJobResult(caller, jobId, TRUE) # "ok"

(***************************************************************************)
(* The price function over large prices.  The token of the test suite      *)
(* mints any amount to any account, so a poster can escrow a ceiling near  *)
(* the top of the uint256 range.                                           *)
(***************************************************************************)
MintAmounts == {200}

PostArgsPrice == { <<"d", 1, 3, 2, 1>>, <<"d", 0, 200, 4, 1>>, <<"d", 0, 3, MaxUint, 1>> }

mint(to, amount) ==
    /\ ~Overflows(bal[to] + amount)
    /\ bal' = [bal EXCEPT ![to] = @ + amount]
    /\ last' = Call("mint", ZeroAddress, 0, "ok", amount)
    /\ UNCHANGED <<jobs, agentStats, now, ledger>>

NextPrice ==
    \/ \E amount \in MintAmounts :
            /\ bal["poster"] <= InitBal
            /\ mint("poster", amount)
    \/ \E args \in PostArgsPrice :
            /\ jobs = << >>
            /\ postJob("poster", args[1], args[2], args[3], args[4], args[5], TRUE)
    \/ \E caller \in Addr, jobId \in JobIds, agentId \in AgentIds :
            claimJob(caller, jobId, agentId, TRUE)
    \/ \E jobId \in JobIds : getCurrentPrice(jobId)
    \/ Tick

SpecPrice == Init /\ [][NextPrice]_vars

(***************************************************************************)
(* C32. For every job postJob accepted and every time from auctionStart    *)
(* on, getCurrentPrice returns a value, and so does claimJob by anyone but *)
(* the poster while the job is Open: neither auctionStart +                *)
(* auctionDuration nor (maxPrice - minPrice) * elapsed overflows.          *)
(***************************************************************************)
AuctionEndFits ==
    \A jobId \in JobIds : ~Overflows(JobAt(jobId).auctionStart + JobAt(jobId).auctionDuration)

RampProductFits ==
    \A jobId \in JobIds :
        (/\ ~Overflows(JobAt(jobId).auctionStart + JobAt(jobId).auctionDuration)
         /\ now < JobAt(jobId).auctionStart + JobAt(jobId).auctionDuration) =>
            ~Overflows((JobAt(jobId).maxPrice - JobAt(jobId).minPrice) * (now - JobAt(jobId).auctionStart))

PriceNeverOverflows ==
    /\ AuctionEndFits
    /\ RampProductFits
    /\ \A jobId \in JobIds :
            /\ ~_getCurrentPrice(JobAt(jobId), now).reverted
            /\ JobAt(jobId).status = "Open" =>
                    \A caller \in Addr \ {JobAt(jobId).poster} :
                        claimJobResult(caller, jobId, TRUE) # "Panic(0x11)"

\* getCurrentPrice reverts on the sum for one job and on the product for another
PriceOverflowsOnSum ==
    \E jobId \in JobIds :
        /\ ~AuctionEndFits
        /\ last = Call("getCurrentPrice", ZeroAddress, jobId, "Panic(0x11)", 0)

PriceOverflowsOnProduct ==
    \E jobId \in JobIds :
        /\ AuctionEndFits
        /\ ~RampProductFits
        /\ last = Call("getCurrentPrice", ZeroAddress, jobId, "Panic(0x11)", 0)

(***************************************************************************)
(* C33. Every job that has been claimed keeps minPrice <= paidAmount <=    *)
(* maxPrice and auctionStart <= claimedAt, its paidAmount is the ramp      *)
(* price at claimedAt, and the refund maxPrice - paidAmount of the claim   *)
(* is never negative.                                                      *)
(***************************************************************************)
ClaimedPriceInRange ==
    \A jobId \in JobIds :
        LET job == JobAt(jobId)
        IN  job.status \notin {"Open", "Cancelled"} =>
                /\ job.minPrice <= job.paidAmount
                /\ job.paidAmount <= job.maxPrice
                /\ job.auctionStart <= job.claimedAt
                /\ job.paidAmount = RampPrice(job, job.claimedAt)
                /\ ~Overflows(job.maxPrice - job.paidAmount)
                /\ Refunded(jobId) >= job.maxPrice - job.paidAmount

\* a claim in the middle of the ramp, strictly between floor and ceiling
ClaimedPriceInRangeWitness ==
    \E jobId \in JobIds :
        /\ last.op = "claimJob" /\ last.result = "ok" /\ last.jobId = jobId
        /\ JobAt(jobId).status = "Claimed"
        /\ JobAt(jobId).minPrice < JobAt(jobId).paidAmount
        /\ JobAt(jobId).paidAmount < JobAt(jobId).maxPrice
        /\ JobAt(jobId).auctionStart < JobAt(jobId).claimedAt

(***************************************************************************)
(* C34. Global solvency: the token balance of the contract is the sum of   *)
(* what it still owes over all jobs (maxPrice for an Open job, paidAmount  *)
(* for a Claimed or Submitted one, nothing for a settled one), so no       *)
(* refund or payout fails for lack of funds.                               *)
(***************************************************************************)
RECURSIVE TotalOutstanding(_)
TotalOutstanding(js) ==
    IF js = << >> THEN 0 ELSE Outstanding(Head(js)) + TotalOutstanding(Tail(js))

LackOfFunds(result) == result = "transfer failed"

JobsOf(agent, status) ==
    { jobId \in JobIds : JobAt(jobId).agent = agent /\ JobAt(jobId).status = status }

RECURSIVE SumPaidAmount(_)
SumPaidAmount(jobIds) ==
    IF jobIds = {} THEN 0
    ELSE LET jobId == CHOOSE j \in jobIds : TRUE
         IN  JobAt(jobId).paidAmount + SumPaidAmount(jobIds \ {jobId})

RECURSIVE SumRating(_)
SumRating(jobIds) ==
    IF jobIds = {} THEN 0
    ELSE LET jobId == CHOOSE j \in jobIds : TRUE
         IN  JobAt(jobId).rating + SumRating(jobIds \ {jobId})

RECURSIVE SumPaidOut(_)
SumPaidOut(jobIds) ==
    IF jobIds = {} THEN 0
    ELSE LET jobId == CHOOSE j \in jobIds : TRUE
         IN  PaidOut(jobId) + SumPaidOut(jobIds \ {jobId})

StatsAgreeWithJobs ==
    \A agent \in Addr :
        /\ agentStats[agent].completedJobs = Cardinality(JobsOf(agent, "Completed"))
        /\ agentStats[agent].disputedJobs = Cardinality(JobsOf(agent, "Disputed"))
        /\ agentStats[agent].totalEarned = SumPaidAmount(JobsOf(agent, "Completed"))
        /\ agentStats[agent].totalEarned = SumPaidOut(JobsOf(agent, "Completed"))
        /\ agentStats[agent].totalRating = SumRating(JobsOf(agent, "Completed"))

\* one agent with two approved jobs of different ratings
StatsAgreeWithJobsWitness ==
    \E agent \in Addr :
        /\ Cardinality(JobsOf(agent, "Completed")) = 2
        /\ JobAt(0).rating # JobAt(1).rating
        /\ agentStats[agent].completedJobs = 2
        /\ agentStats[agent].totalRating = JobAt(0).rating + JobAt(1).rating
        /\ agentStats[agent].totalEarned > 0

\* one agent with an approved and a disputed job
StatsAgreeAfterDispute ==
    \E agent \in Addr :
        /\ Cardinality(JobsOf(agent, "Completed")) = 1
        /\ Cardinality(JobsOf(agent, "Disputed")) = 1
        /\ agentStats[agent].disputedJobs = 1

(***************************************************************************)
(* C36. Final settlement: once a job is terminal, its poster has paid, net *)
(* of refunds, paidAmount if it is Completed and nothing if it is          *)
(* Cancelled, Disputed or Expired; its agent has received paidAmount if it *)
(* is Completed and nothing otherwise; and nobody else, the caller of      *)
(* expireJob included, has received anything.                              *)
(***************************************************************************)
NetCost(jobId) == Deposited(jobId) - Refunded(jobId)

NetReceipt(jobId, account) ==
    SumAmounts(SelectSeq(EntriesOf(jobId), LAMBDA e : e.from = Board /\ e.to = account))

Earned(job) == IF job.status = "Completed" THEN job.paidAmount ELSE 0

FinalSettlement ==
    \A jobId \in JobIds :
        LET job == JobAt(jobId)
        IN  job.status \in TerminalStatus =>
                /\ NetCost(jobId) = Earned(job)
                /\ job.agent # ZeroAddress => NetReceipt(jobId, job.agent) = Earned(job)
                /\ \A account \in Addr \ {job.poster, job.agent} : NetReceipt(jobId, account) = 0
                /\ bal[Board] = 0
                /\ \A account \in Addr :
                        bal[account] = InitBal
                                       - (IF account = job.poster THEN Earned(job) ELSE 0)
                                       + (IF account = job.agent THEN Earned(job) ELSE 0)

\* a job expired by somebody who is neither its poster nor its agent
FinalSettlementWitness ==
    \E jobId \in JobIds :
        /\ JobAt(jobId).status = "Expired"
        /\ last.op = "expireJob" /\ last.result = "ok"
        /\ last.caller \notin {JobAt(jobId).poster, JobAt(jobId).agent}
        /\ JobAt(jobId).paidAmount > 0
        /\ bal[last.caller] = InitBal

\* a job approved at a price above zero and below the ceiling
FinalSettlementPaid ==
    \E jobId \in JobIds :
        /\ JobAt(jobId).status = "Completed"
        /\ JobAt(jobId).paidAmount > 0
        /\ JobAt(jobId).paidAmount < JobAt(jobId).maxPrice
        /\ bal[JobAt(jobId).agent] = InitBal + JobAt(jobId).paidAmount
        /\ bal[JobAt(jobId).poster] = InitBal - JobAt(jobId).paidAmount

(***************************************************************************)
(* C37. Reentrancy: while the token transfer of postJob, claimJob,         *)
(* approveWork, disputeWork, cancelJob or expireJob is in flight, every    *)
(* call of one of these six made from inside the token fails and changes   *)
(* nothing; a submitWork made from inside the token, which has no guard,   *)
(* moves no token; and once the outer call has returned, each job's escrow *)
(* is conserved, has left the contract at most once, and the contract's    *)
(* balance is the sum of what it still owes.                               *)
(***************************************************************************)
NestedStep == InFlight /\ InFlight'

ReentrancySafe ==
    /\ [][NestedStep =>
            /\ last'.value.nested.op \in nonReentrant =>
                    /\ last'.value.nested.result # "ok"
                    /\ UNCHANGED <<jobs, agentStats, bal, ledger>>
            /\ last'.value.nested.op = "submitWork" =>
                    /\ UNCHANGED <<agentStats, bal, ledger>>
                    /\ last'.value.amount = last.value.amount
                    /\ last'.value.to = last.value.to]_vars
    /\ [](~InFlight =>
            /\ bal[Board] = TotalOutstanding(jobs)
            /\ \A jobId \in JobIds :
                    /\ EscrowHeld(jobId) = Outstanding(JobAt(jobId))
                    /\ EscrowHeld(jobId) + Refunded(jobId) + PaidOut(jobId) = JobAt(jobId).maxPrice
                    /\ Transfers(jobId, "approveWork") + Transfers(jobId, "disputeWork")
                            + Transfers(jobId, "expireJob") + Transfers(jobId, "cancelJob") <= 1
                    /\ Transfers(jobId, "claimJob") <= 1)

\* a claimJob has returned whose refund transfer was re-entered by the agent's
\* submitWork: the job is already Submitted, the refund was made once
ReentrancySafeWitness ==
    \E jobId \in JobIds :
        /\ last.op = "claimJob" /\ last.result = "ok" /\ last.jobId = jobId
        /\ JobAt(jobId).status = "Submitted"
        /\ Transfers(jobId, "claimJob") = 1
        /\ Refunded(jobId) = JobAt(jobId).maxPrice - JobAt(jobId).paidAmount

\* a guarded function is called from inside the transfer of another and reverts
NestedCallReverts ==
    /\ InFlight
    /\ last.op = "approveWork"
    /\ last.value.nested.op = "disputeWork"
    /\ last.value.nested.caller = last.caller
    /\ last.value.nested.result = "ReentrancyGuardReentrantCall"

(***************************************************************************)
(* Progress. Transfers succeed, time advances, whoever wants to expire a   *)
(* job gets to do it, and the poster gets to approve, dispute and cancel.  *)
(* The clock of the model stops at MaxTime, so an agent claims only while  *)
(* the work deadline, if it is a time at all, lies before that.            *)
(***************************************************************************)
PostArgsLive == { <<"d", 1, 2, 1, 1>>, <<"d", 0, 3, 2, MaxUint>> }

DeadlineInTime(job) ==
    Overflows(now + job.workDeadline) \/ now + job.workDeadline < MaxTime

posterApproves ==
    \E jobId \in JobIds, rating \in RatingsMulti :
        approveWork(JobAt(jobId).poster, jobId, rating, TRUE) /\ Committed

posterDisputes ==
    \E jobId \in JobIds : disputeWork(JobAt(jobId).poster, jobId, TRUE) /\ Committed

posterCancels ==
    \E jobId \in JobIds : cancelJob(JobAt(jobId).poster, jobId, TRUE) /\ Committed

anyoneExpires ==
    \E caller \in Addr, jobId \in JobIds : expireJob(caller, jobId, TRUE) /\ Committed

NextLive ==
    \/ \E caller \in Addr, args \in PostArgsLive :
            /\ jobs = << >>
            /\ postJob(caller, args[1], args[2], args[3], args[4], args[5], TRUE)
            /\ Committed
    \/ \E caller \in Addr, jobId \in JobIds, agentId \in AgentIds :
            /\ DeadlineInTime(JobAt(jobId))
            /\ claimJob(caller, jobId, agentId, TRUE)
            /\ Committed
    \/ \E caller \in Addr, jobId \in JobIds :
            submitWork(caller, jobId, "ipfs") /\ Committed
    \/ posterApproves
    \/ posterDisputes
    \/ posterCancels
    \/ anyoneExpires
    \/ Tick

SpecLive ==
    /\ Init
    /\ [][NextLive]_vars
    /\ WF_vars(Tick)
    /\ WF_vars(anyoneExpires)
    /\ WF_vars(posterApproves)
    /\ WF_vars(posterDisputes)
    /\ WF_vars(posterCancels)

(***************************************************************************)
(* C38. No stuck funds: when transfers succeed, time advances, and         *)
(* expireJob and the poster's approveWork, disputeWork and cancelJob are   *)
(* weakly fair, every posted job eventually reaches a terminal status with *)
(* no escrow left; and a Submitted job can be moved by nobody but its      *)
(* poster.                                                                 *)
(***************************************************************************)
Settled(jobId) ==
    /\ JobExists(jobId)
    /\ JobAt(jobId).status \in TerminalStatus
    /\ EscrowHeld(jobId) = 0

SubmittedNeedsPoster ==
    [][\A jobId \in JobIds :
            (JobAt(jobId).status = "Submitted" /\ last'.caller # JobAt(jobId).poster) =>
                jobs' = jobs /\ bal' = bal]_vars

NoStuckFunds ==
    /\ JobExists(0) ~> Settled(0)
    /\ SubmittedNeedsPoster

\* what holds instead: a job is settled in the end unless it was claimed with a
\* deadline that is no time at all
NoStuckFundsUnlessOverflow ==
    /\ JobExists(0) ~> (Settled(0) \/ ClaimedJobStuck)
    /\ SubmittedNeedsPoster

\* a Submitted job, its deadline long past, that only the poster can move
SubmittedWaitsForPoster ==
    \E jobId \in JobIds :
        /\ JobAt(jobId).status = "Submitted"
        /\ now > JobAt(jobId).claimedAt + JobAt(jobId).workDeadline
        /\ \A caller \in Addr : expireJobResult(caller, jobId, TRUE) = "Job not in claimed state"

(***************************************************************************)
(* C39. Error precedence, when a call fails more than one check:           *)
(* approveWork, disputeWork and cancelJob look at the caller before the    *)
(* status; submitWork looks at the caller before the status, the URI and   *)
(* the deadline, so on an Open job every caller gets "Only assigned        *)
(* agent"; claimJob looks at the status before the caller, so the poster   *)
(* of a job that is not Open gets "Job not open".                          *)
(***************************************************************************)
FailsStatusCheck(op, job) ==
    IF op \in {"claimJob", "cancelJob"} THEN job.status # "Open"
    ELSE IF op \in {"approveWork", "disputeWork"} THEN job.status # "Submitted"
    ELSE job.status # "Claimed"

ErrorPrecedence ==
    [][last'.op \in Mutators =>
        \A jobId \in JobIds :
            (/\ last'.jobId = jobId
             /\ FailsStatusCheck(last'.op, JobAt(jobId))) =>
                /\ (/\ last'.op \in RoleChecked
                    /\ ~PassesCallerCheck(last'.op, last'.caller, JobAt(jobId)))
                        => last'.result = CallerError(last'.op)
                /\ (last'.op = "submitWork" /\ JobAt(jobId).status = "Open")
                        => last'.result = "Only assigned agent"
                /\ (last'.op = "claimJob" /\ last'.caller = JobAt(jobId).poster)
                        => last'.result = "Job not open"]_vars

\* the poster tried to claim its own job after an agent had claimed it
ErrorPrecedenceWitness ==
    /\ last.op = "claimJob"
    /\ JobExists(last.jobId)
    /\ last.caller = JobAt(last.jobId).poster
    /\ JobAt(last.jobId).status = "Claimed"
    /\ last.result = "Job not open"

\* somebody who is not the poster tried to cancel a job that was no longer Open
ErrorPrecedencePosterFirst ==
    /\ last.op = "cancelJob"
    /\ JobExists(last.jobId)
    /\ last.caller # JobAt(last.jobId).poster
    /\ JobAt(last.jobId).status = "Submitted"
    /\ last.result = "Only poster can cancel"

====
